---- MODULE Spec2Model ----
(***************************************************************************)
(* A model of the interpreter loop (src/execution/interpreter_loop.rs) and *)
(* the runtime store (src/execution/store.rs) of the wasm interpreter.     *)
(*                                                                         *)
(* Machine integers keep their real width.  TLC's integers stop at 2^31-1, *)
(* so a u32 is a little-endian sequence of two 16-bit limbs and a u64 or   *)
(* usize (64-bit target) one of four limbs.  Values of the narrow types    *)
(* u8, i8, u16, i16, and non-negative i32 values, are plain integers.      *)
(***************************************************************************)
EXTENDS Integers, Sequences, FiniteSets, TLC

VARIABLES
    mem,        \* store.mems[0]: [ty |-> MemType, data |-> Vec<u8>]
    store_data, \* store.data: the data segments, [init |-> Vec<u8>, mode |-> DataMode]
    globals,    \* store.globals: the global instances, [ty, is_mut, value]
    values,     \* stack.values: the operand stack, bottom first
    frames,     \* stack.frames: the call frames, outermost first
    pc,         \* wasm.pc: the reader's position in the module bytes
    outcome,    \* "running", or how run() ended: "Ok", a RuntimeError, "panic"
    last,       \* history: the instruction executed last, with its pre-state
    hist,       \* history: the calls not yet returned from (calls), the successful
                \* memory.grow so far (their number and the
                \* sum of their deltas), the store that wrote memory last, the
                \* data declarations of the module instantiated (module), its
                \* instructions with their positions where the bodies are
                \* fixed (code), and how the invocation before ended (before)
    steps,      \* history: the number of transitions taken so far
    reader,     \* read_constant_expression: the expression, wasm.pc and the result
    validation  \* validate: the module, the pending header, the sections
                \* collected so far and the result

vars == <<mem, store_data, globals, values, frames, pc, outcome, last, hist, steps, reader,
          validation>>

----------------------------------------------------------------------------
(* Bounds of the model *)

\* the deepest operand stack explored
MaxValues == 4
\* the deepest operand stack explored around calls and returns, and around the
\* bulk memory instructions
MaxCallValues == 3
MaxBulkValues == 3
\* the number of transitions explored in one behaviour of calls with memory.copy
MaxFrameSteps == 9
\* the number of transitions explored in one behaviour of data.drop and memory.init
MaxDropSteps == 8
\* the number of transitions explored in one behaviour of global.get and
\* global.set, and the values on the stack there
MaxGlobalSteps == 8
MaxGlobalValues == 2
\* the number of transitions explored in one behaviour of the loads and stores
MaxStoreSteps == 6
\* the number of transitions explored in one behaviour of memory.copy and
\* memory.fill
MaxBulkSteps == 5
\* the number of successful memory.grow explored in one behaviour
MaxGrows == 3
\* the deepest operand stack explored around loads and stores
MaxStoreValues == 2
\* the deepest operand stack explored around memory.size and memory.grow
MaxGrowValues == 2
\* the deepest call-frame stack explored
MaxFrames == 2
\* the longest in-bounds memory.copy and memory.fill explored (their loops run n times)
MaxBulk == 3
MaxExpr == 3
\* the bytes missing at the end of the module an expression is read from
MaxCut == 2
MaxSections == 2
MaxCustoms == 2
\* the longest input of the type decoders, and the most reads made on one input
MaxTypeBytes == 3
MaxReads == 3
\* the deepest value stack and the most transitions of the explored divisions
MaxDivValues == 2
MaxDivSteps == 4
\* the deepest value stack and the most transitions of the explored truncations
MaxTruncValues == 1
MaxTruncSteps == 3
\* the deepest value stack and the most transitions of the explored shifts
MaxShiftValues == 2
MaxShiftSteps == 4
MaxInstanceValues == 2
MaxInstanceFrames == 2

----------------------------------------------------------------------------
(* Limb arithmetic *)

Limb == 256 * 256

\* a natural number below 2^31 as k limbs (u32::from, `as usize`, `as u32`)
NatToLimbs(n, k) ==
    [i \in 1..k |-> IF i = 1 THEN n % Limb ELSE IF i = 2 THEN n \div Limb ELSE 0]

\* zero-extension to k limbs (`u32 as usize`, `u32 as u64`)
ZeroExtend(a, k) == [i \in 1..k |-> IF i <= Len(a) THEN a[i] ELSE 0]

\* truncation to k limbs (`u64 as u32`)
Truncate(a, k) == [i \in 1..k |-> a[i]]

RECURSIVE Carry(_, _, _)
Carry(a, b, i) == IF i = 0 THEN 0 ELSE (a[i] + b[i] + Carry(a, b, i - 1)) \div Limb

\* a + b modulo 2^(16 * Len(a)), for a and b of the same length
AddLimbs(a, b) == [i \in 1..Len(a) |-> (a[i] + b[i] + Carry(a, b, i - 1)) % Limb]

\* Option<T>: None is the empty sequence, Some(x) the sequence of x alone
None == <<>>
Some(x) == <<x>>

\* u32::checked_add: None on overflow
checked_add(a, b) == IF Carry(a, b, Len(a)) = 1 THEN None ELSE Some(AddLimbs(a, b))

RECURSIVE LtFrom(_, _, _)
LtFrom(a, b, i) ==
    IF i = 0 THEN FALSE
    ELSE IF a[i] # b[i] THEN a[i] < b[i]
    ELSE LtFrom(a, b, i - 1)

\* a < b and a <= b on unsigned numbers of the same length
Lt(a, b) == LtFrom(a, b, Len(a))
Le(a, b) == ~Lt(b, a)

\* the sign bit of a two's-complement number (`x < 0` on an i32 or i64)
IsNegative(a) == a[Len(a)] >= 32768

\* a non-negative i32 (or a u32 below 2^31) as an integer
ToNat(a) == a[1] + Limb * a[2]

\* i32::MAX
I32Max == 32767 * Limb + 65535

\* to_le_bytes: the bytes of a number, least significant first
to_le_bytes(a) ==
    [i \in 1..(2 * Len(a)) |->
        IF i % 2 = 1 THEN a[(i + 1) \div 2] % 256 ELSE a[i \div 2] \div 256]

\* uN::from_le_bytes, for an even number of bytes
from_le_bytes(bs) ==
    [i \in 1..(Len(bs) \div 2) |-> bs[2 * i - 1] + 256 * bs[2 * i]]

\* u8::from_le_bytes and u16::from_le_bytes, as integers
u8_from_le_bytes(bs) == bs[1]
u16_from_le_bytes(bs) == bs[1] + 256 * bs[2]

\* `u8 as i8` without the reinterpretation
u8_as_i8_unsigned(b) == b

\* `u8 as i8` and `u16 as i16`: reinterpret as signed
u8_as_i8(b) == IF b >= 128 THEN b - 256 ELSE b
u16_as_i16(h) == IF h >= 32768 THEN h - Limb ELSE h

\* a narrow integer (i8, u8, i16, u16) cast to k limbs: sign-extends when negative
NarrowAs(x, k) ==
    [i \in 1..k |-> IF i = 1 THEN (IF x < 0 THEN x + Limb ELSE x)
                    ELSE IF x < 0 THEN Limb - 1 ELSE 0]

\* `i32 as u64`: sign-extension of a 2-limb number to four limbs
SignExtend(a, k) ==
    [i \in 1..k |-> IF i <= Len(a) THEN a[i]
                    ELSE IF IsNegative(a) THEN Limb - 1 ELSE 0]

----------------------------------------------------------------------------
(* The linear memory: MemInst of store.rs.  `data` is the Vec<u8>: its      *)
(* length, and the bytes that are not 0 keyed by their index (a usize).     *)

PAGE_SIZE == 65536
MAX_PAGES == 65536

\* usize multiplication n * PAGE_SIZE for a page count n <= 2^16
PagesToBytes(n) == <<0, n % Limb, n \div Limb, 0>>

\* Vec::len() / PAGE_SIZE for a length below 2^47
BytesToPages(len) == len[2] + Limb * len[3]

ZeroVec(len) == [len |-> len, nz |-> [a \in {} |-> 0]]

\* data[a], for a usize a below data.len
ByteAt(data, a) == IF a \in DOMAIN data.nz THEN data.nz[a] ELSE 0

\* the usize a + k for a small k
Plus(a, k) == AddLimbs(a, NatToLimbs(k, 4))

\* data.get(a..a+w): the w bytes from a, or None past the end
slice_get(data, a, w) ==
    IF Le(Plus(a, w), data.len)
    THEN Some([i \in 1..w |-> ByteAt(data, Plus(a, i - 1))])
    ELSE None

\* a copy that stops one byte short
slice_write_but_last(data, a, bs) ==
    LET written == {Plus(a, i - 1) : i \in 1..(Len(bs) - 1)}
        new(x) == IF x \in written
                  THEN bs[CHOOSE i \in 1..Len(bs) : Plus(a, i - 1) = x]
                  ELSE data.nz[x]
        keys == {x \in (DOMAIN data.nz) \cup written : new(x) # 0}
    IN [data EXCEPT !.nz = [x \in keys |-> new(x)]]

\* copy_from_slice into data[a..a+Len(bs)], already known to be in bounds
slice_write(data, a, bs) ==
    LET written == {Plus(a, i - 1) : i \in 1..Len(bs)}
        new(x) == IF x \in written
                  THEN bs[CHOOSE i \in 1..Len(bs) : Plus(a, i - 1) = x]
                  ELSE data.nz[x]
        keys == {x \in (DOMAIN data.nz) \cup written : new(x) # 0}
    IN [data EXCEPT !.nz = [x \in keys |-> new(x)]]

\* MemInst::new
MemInst_new(ty) == [ty |-> ty, data |-> ZeroVec(PagesToBytes(ty.limits.min))]

\* MemInst::size
MemInst_size(m) == BytesToPages(m.data.len)

\* MemInst::grow extending by delta_pages bytes
MemInst_grow_bytes(m, delta_pages) ==
    [m EXCEPT !.data.len = AddLimbs(m.data.len, NatToLimbs(delta_pages, 4))]

\* MemInst::grow replacing the bytes by a zeroed vector of the new length
MemInst_grow_zeroing(m, delta_pages) ==
    [m EXCEPT !.data = ZeroVec(AddLimbs(m.data.len, PagesToBytes(delta_pages)))]

\* MemInst::grow: Vec::extend by delta_pages * PAGE_SIZE zero bytes
MemInst_grow(m, delta_pages) ==
    [m EXCEPT !.data.len = AddLimbs(m.data.len, PagesToBytes(delta_pages))]

----------------------------------------------------------------------------
(* Values and the stack (value.rs and value_stack.rs, described in the      *)
(* specification's sections 3 and 4.G)                                      *)

\* Value: a tag and the bit pattern
I32(bits) == [ty |-> "I32", bits |-> bits]
I64(bits) == [ty |-> "I64", bits |-> bits]
F32(bits) == [ty |-> "F32", bits |-> bits]
F64(bits) == [ty |-> "F64", bits |-> bits]

\* the u32 with high limb hi and low limb lo; the u64 of four limbs, highest first
U32(hi, lo) == <<lo, hi>>
U64(l4, l3, l2, l1) == <<l1, l2, l3, l4>>

\* Value::default_from_ty: the zero of a type
ZeroOf(ty) == [ty |-> ty, bits |-> IF ty \in {"I32", "F32"} THEN <<0, 0>> ELSE <<0, 0, 0, 0>>]

\* the topmost n values, bottom first, and the stack without them (pop_tail_iter)
LastN(vs, n) == SubSeq(vs, Len(vs) - n + 1, Len(vs))
ButLast(vs, n) == SubSeq(vs, 1, Len(vs) - n)

\* the top value, and the value k below the top
Top(vs) == vs[Len(vs)]
Nth(vs, k) == vs[Len(vs) - k]

\* Stack::current_stackframe
current_stackframe(fs) == fs[Len(fs)]

\* Stack::callframe_count
callframe_count(fs) == Len(fs)

\* Stack::push_stackframe: the new frame's base is the current number of values
push_stackframe(fs, vs, func_idx, func_ty, locals, return_pc) ==
    Append(fs, [func_idx |-> func_idx,
                return_arity |-> Len(func_ty.returns),
                locals |-> locals,
                value_stack_base |-> Len(vs),
                return_pc |-> return_pc])

\* Stack::pop_stackframe: drops the top frame, keeps its top return_arity values
\* over the values below its base, and returns its return address
pop_stackframe(fs, vs) ==
    LET f == current_stackframe(fs)
    IN [frames |-> ButLast(fs, 1),
        values |-> SubSeq(vs, 1, f.value_stack_base) \o LastN(vs, f.return_arity),
        return_pc |-> f.return_pc]

\* Stack::clear_callframe_values: truncates the values to the top frame's base
clear_callframe_values(fs, vs) == SubSeq(vs, 1, current_stackframe(fs).value_stack_base)

\* the types of the values above the current frame's base, bottom first
OperandTypes ==
    LET base == current_stackframe(frames).value_stack_base
    IN [i \in 1..(Len(values) - base) |-> values[base + i].ty]

\* what validation guarantees before an instruction that pops operands of types tys
\* (deepest first): they lie on top of the stack, above the frame's base
HasOperands(tys) ==
    /\ Len(OperandTypes) >= Len(tys)
    /\ LastN(OperandTypes, Len(tys)) = tys

----------------------------------------------------------------------------
(* The module under execution: its function types and functions (FuncInst   *)
(* of store.rs).  Function bodies are arbitrary validated instruction       *)
(* sequences that fit the code span.                                        *)

\* types: &[FuncType], indexed from 0
Types ==
    << [params |-> <<>>, returns |-> <<>>],
       [params |-> <<>>, returns |-> <<"I32">>],
       [params |-> <<"I32">>, returns |-> <<"I32">>],
       [params |-> <<"I32", "I32">>, returns |-> <<"I32", "I32">>] >>

\* store.funcs, indexed from 0
Funcs ==
    << [ty |-> 0, locals |-> <<>>, code_expr |-> [from |-> 18, len |-> 9]],
       [ty |-> 1, locals |-> <<>>, code_expr |-> [from |-> 27, len |-> 7]],
       [ty |-> 2, locals |-> <<"I32">>, code_expr |-> [from |-> 34, len |-> 6]],
       [ty |-> 3, locals |-> <<>>, code_expr |-> [from |-> 40, len |-> 5]],
       [ty |-> 0, locals |-> <<>>, code_expr |-> [from |-> 45, len |-> 20]],
       [ty |-> 1, locals |-> <<>>, code_expr |-> [from |-> 65, len |-> 20]] >>

FuncIdx == 0..(Len(Funcs) - 1)

\* store.globals after instantiation, indexed from 0: GlobalInst with its type,
\* its mutability and its value
Globals ==
    << [ty |-> "I32", is_mut |-> TRUE, value |-> I32(<<0, 0>>)],
       [ty |-> "I64", is_mut |-> TRUE, value |-> I64(<<0, 0, 0, 0>>)] >>

\* the functions of the explored programs that call each other, and those that
\* work on the memory
CallFuncs == 0..3
MemFuncs == {4, 5}
func_inst(idx) == Funcs[idx + 1]
func_ty(idx) == Types[func_inst(idx).ty + 1]

\* the last byte of the current function's code span, where its final `end` can lie
BodyEnd ==
    LET span == func_inst(current_stackframe(frames).func_idx).code_expr
    IN span.from + span.len - 1

----------------------------------------------------------------------------
(* The reader: the lengths of the LEB128 immediates it steps over           *)
(* (WasmReader::read_var_u32 and read_var_i32, specification section 4.A)   *)

\* the number of significant bits of a limb and of an unsigned number
LimbBits(x) == CHOOSE k \in 0..16 : x < 2^k /\ (k = 0 \/ x >= 2^(k - 1))
BitLen(a) ==
    LET used == {i \in 1..Len(a) : a[i] # 0}
        h == CHOOSE i \in used : \A j \in used : j <= i
    IN IF used = {} THEN 0 ELSE 16 * (h - 1) + LimbBits(a[h])

\* the one's complement of a number
Not(a) == [i \in 1..Len(a) |-> Limb - 1 - a[i]]

\* the length of the shortest unsigned LEB128 encoding of a u32
ULebLen(a) == IF BitLen(a) = 0 THEN 1 ELSE (BitLen(a) + 6) \div 7

\* the length of the shortest signed LEB128 encoding of an i32 or i64
SLebLen(a) == BitLen(IF IsNegative(a) THEN Not(a) ELSE a) \div 7 + 1

----------------------------------------------------------------------------
(* The instantiated module: its memory declaration and active data segments *)

\* the ceiling of 2^16 pages taken as exclusive
MemType_read_exclusive(limit) ==
    IF limit.min >= MAX_PAGES THEN [err |-> "MemSizeTooBig"]
    ELSE IF limit.max = None THEN [err |-> "", limits |-> [limit EXCEPT !.max = Some(MAX_PAGES)]]
    ELSE IF limit.max[1] >= MAX_PAGES THEN [err |-> "MemSizeTooBig"]
    ELSE [err |-> "", limits |-> limit]

\* MemType::read applied to decoded Limits: the limits of a valid memory type,
\* or the error (min and max are page counts)
MemType_read(limit) ==
    IF limit.min > MAX_PAGES THEN [err |-> "MemSizeTooBig"]
    ELSE IF limit.max = None THEN [err |-> "", limits |-> [limit EXCEPT !.max = Some(MAX_PAGES)]]
    ELSE IF limit.max[1] > MAX_PAGES THEN [err |-> "MemSizeTooBig"]
    ELSE [err |-> "", limits |-> limit]

\* the memory declarations explored, as decoded by Limits::read (min <= max)
MemDecls ==
    { [min |-> 0, max |-> None],
      [min |-> 1, max |-> Some(1)],
      [min |-> 1, max |-> Some(2)],
      [min |-> 32768, max |-> None] }

\* the active data segments explored: none, four bytes at offset 0, and four
\* bytes from 0x7FFFFFFF on
NoData == [offset |-> U32(0, 0), init |-> <<>>]
DataLow == [offset |-> U32(0, 0), init |-> <<17, 34, 51, 68>>]
DataHigh == [offset |-> U32(32767, 65535), init |-> <<17, 34, 51, 68>>]

\* a passive data declaration: bytes kept for memory.init, no offset expression
PassiveData == [init |-> <<85, 102, 119>>]

\* two more active declarations, as in the module of tests/memory_copy.rs
DataAtTwo == [offset |-> U32(0, 2), init |-> <<3, 1, 4, 1>>]
DataAtTwelve == [offset |-> U32(0, 12), init |-> <<7, 5, 2, 3, 6>>]

\* whether a declaration is active (it has an offset expression)
IsActive(decl) == "offset" \in DOMAIN decl

\* DataMode and DataSegment (data.rs)
Passive == [kind |-> "Passive"]
Active(memory_idx, offset) ==
    [kind |-> "Active", memory_idx |-> memory_idx, offset |-> offset]
DataSegment(init, mode) == [init |-> init, mode |-> mode]

\* Result values: Ok(x) and Err(e); Err carries the error's name and, for
\* InvalidInstr and SectionOutOfOrder, its argument
Ok(x) == <<"Ok", x>>
Err(e) == <<"Err", e>>
ErrOf(e, x) == <<"Err", e, x>>
IsOk(r) == r # <<>> /\ r[1] = "Ok"
IsErr(r) == r # <<>> /\ r[1] = "Err"

\* the process aborted (panic!, todo!, unimplemented!, unwrap on Err, assert)
Panicked == <<"panic">>

\* Span::new
Span(from, len) == [from |-> from, len |-> len]

\* instructions of expressions: an opcode and, where it has one, the immediate
Instr(op, imm) == [op |-> op, imm |-> imm]
End == Instr("end", None)

\* the bytes of the immediate that read_constant_expression reads after the
\* opcode it accepted
ImmediateLen(instr) ==
    CASE instr.op = "global.get" -> ULebLen(instr.imm)
      [] instr.op = "i32.const" -> SLebLen(instr.imm)
      [] instr.op = "i64.const" -> SLebLen(instr.imm)
      [] instr.op = "ref.null" -> 1
      [] instr.op = "ref.func" -> ULebLen(instr.imm)
      [] OTHER -> 0

\* the opcodes read_constant_expression matches besides END
ConstOpcodes ==
    {"global.get", "i32.const", "i64.const", "i32.add", "i32.sub", "i32.mul",
     "i64.add", "i64.sub", "i64.mul", "ref.null", "ref.func"}

\* the bytes an instruction takes in the module
InstrBytes(instr) ==
    1 + (CASE instr.op = "f32.const" -> 4
           [] instr.op = "f64.const" -> 8
           [] instr.op = "local.get" -> ULebLen(instr.imm)
           [] OTHER -> ImmediateLen(instr))

\* the bytes a sequence of instructions takes in the module
RECURSIVE ExprBytes(_)
ExprBytes(wasm) == IF wasm = <<>> THEN 0 ELSE InstrBytes(Head(wasm)) + ExprBytes(Tail(wasm))

\* the state of read_constant_expression on entry: the instructions from
\* wasm.pc on, none of them read, in a module that ends at the byte `len`
CutReaderAt(wasm, start_pc, len) ==
    [wasm |-> wasm, read |-> 0, start_pc |-> start_pc, pc |-> start_pc, len |-> len,
     result |-> <<>>]

\* the same in a module that holds all the bytes of the instructions
ReaderAt(wasm, start_pc) == CutReaderAt(wasm, start_pc, start_pc + ExprBytes(wasm))

\* the immediate of an accepted opcode read with `?` (read_var_u32, read_var_i32,
\* read_var_i64) or with unwrap (RefType::read, read_var_u32), in a module
\* that ends before the immediate does: the reader's Eof is returned, or
\* unwrap panics
read_immediate_at_eof(at, first_instr_byte) ==
    IF first_instr_byte \in {"ref.null", "ref.func"}
    THEN [at EXCEPT !.pc = at.len, !.result = Panicked]
    ELSE [at EXCEPT !.pc = at.len, !.result = Err("Eof")]

\* one iteration of the loop of read_constant_expression: the opcode byte,
\* then END, an accepted opcode with its immediate, or any other opcode
read_constant_instr(r) ==
    IF r.read >= Len(r.wasm) \/ r.pc >= r.len
    THEN [r EXCEPT !.result = Err("ExprMissingEnd")]
    ELSE
    LET instr == r.wasm[r.read + 1]
        first_instr_byte == instr.op
        at == [r EXCEPT !.read = @ + 1, !.pc = @ + 1]
    IN IF first_instr_byte = "end"
       THEN [at EXCEPT !.result = Ok(Span(r.start_pc, at.pc - r.start_pc + 1))]
       ELSE IF first_instr_byte \in ConstOpcodes
       THEN IF at.pc + ImmediateLen(instr) > at.len
            THEN read_immediate_at_eof(at, first_instr_byte)
            ELSE [at EXCEPT !.pc = @ + ImmediateLen(instr)]
       ELSE [at EXCEPT !.result = ErrOf("InvalidInstr", first_instr_byte)]

\* read_constant_expression: the loop run to its return
RECURSIVE read_constant_expression(_)
read_constant_expression(r) ==
    IF r.result # <<>> THEN r ELSE read_constant_expression(read_constant_instr(r))

\* the span of the offset expression `i32.const c; end` of the k-th declaration
OffsetSpan(k, c) ==
    read_constant_expression(ReaderAt(<<Instr("i32.const", c), End>>, 100 + 16 * k)).result[2]

\* store.data of a module with the data declarations `datas`
StoreData(datas) ==
    [k \in 1..Len(datas) |->
        IF IsActive(datas[k])
        THEN DataSegment(datas[k].init, Active(0, OffsetSpan(k, datas[k].offset)))
        ELSE DataSegment(datas[k].init, Passive)]

\* the bounds check of instantiation: offset + |init| <= |mem.data|
DataFits(data, decl) ==
    ~Lt(data.len, Plus(ZeroExtend(decl.offset, 4), Len(decl.init)))

\* the data declarations from the k-th on, applied in order: the active ones
\* are copied into memory at their offsets, the passive ones are kept
RECURSIVE CopyData(_, _, _)
CopyData(data, datas, k) ==
    IF k > Len(datas) THEN data
    ELSE IF IsActive(datas[k])
    THEN CopyData(slice_write(data, ZeroExtend(datas[k].offset, 4), datas[k].init),
                  datas, k + 1)
    ELSE CopyData(data, datas, k + 1)

\* the memory after instantiation (specification section 4.F steps 3 and 5)
Instantiate(decl, datas) ==
    LET m == MemInst_new([limits |-> MemType_read(decl).limits])
    IN [m EXCEPT !.data = CopyData(m.data, datas, 1)]

----------------------------------------------------------------------------
(* State changes shared by the handlers *)

Running == outcome = "running"

\* RuntimeError: the errors run() returns
RuntimeErrors ==
    { "DivideBy0", "UnrepresentableResult", "BadConversionToInteger",
      "MemoryAccessOutOfBounds" }

NoLast == [op |-> "none"]

\* the history record of an instruction: its name, immediate and pre-state
Executed(op, imm) ==
    [op |-> op, imm |-> imm, values |-> values, frames |-> frames,
     pc |-> pc, data |-> mem.data, store_data |-> store_data, globals |-> globals]

\* a trap that puts the globals back to their values at instantiation
Trap_resetting_globals(e, vs, newpc, op, imm) ==
    /\ outcome' = e
    /\ values' = vs
    /\ pc' = newpc
    /\ last' = Executed(op, imm)
    /\ globals' = Globals
    /\ UNCHANGED <<mem, store_data, frames, hist>>

\* the handler returns Err(e): run() ends, the stack stays as the handler left it
Trap(e, vs, newpc, op, imm) ==
    /\ outcome' = e
    /\ values' = vs
    /\ pc' = newpc
    /\ last' = Executed(op, imm)
    /\ UNCHANGED <<mem, store_data, globals, frames, hist>>

\* the handler panics: the process unwinds out of run()
Panic(vs, newpc, op, imm) ==
    /\ outcome' = "panic"
    /\ values' = vs
    /\ pc' = newpc
    /\ last' = Executed(op, imm)
    /\ UNCHANGED <<mem, store_data, globals, frames, hist>>

\* the state after instantiation of a module with memory declaration `decl`
\* and data declarations `datas`, every active one of which fits the memory
\* the module instantiated, its code the instructions `code` with their positions
InstantiatedProgram(decl, datas, code) ==
    /\ \A k \in 1..Len(datas) :
          IsActive(datas[k]) =>
              DataFits(MemInst_new([limits |-> MemType_read(decl).limits]).data, datas[k])
    /\ mem = Instantiate(decl, datas)
    /\ store_data = StoreData(datas)
    /\ globals = Globals
    /\ values = <<>>
    /\ frames = <<>>
    /\ pc = 0
    /\ outcome = "idle"
    /\ last = NoLast
    /\ hist = [n |-> 0, sum |-> 0, store |-> None, module |-> datas, calls |-> <<>>,
               code |-> code, before |-> "idle"]
    /\ steps = 0
    /\ reader = None
    /\ validation = None

\* a module whose function bodies are any validated instruction sequences
InstantiatedModule(decl, datas) == InstantiatedProgram(decl, datas, {})

\* the state after instantiation of a module with one active data segment
Instantiated(decl, segment) == InstantiatedModule(decl, <<segment>>)

----------------------------------------------------------------------------
(* Invocation (RuntimeInstance::invoke, specification sections 4.G and 6):  *)
(* a fresh stack, the arguments as the first locals, one frame, then run()  *)

Invoke(func_idx, args) ==
    /\ outcome \in {"idle", "Ok"} \cup RuntimeErrors
    /\ Len(args) = Len(func_ty(func_idx).params)
    /\ LET locals == args \o [i \in 1..Len(func_inst(func_idx).locals) |->
                                ZeroOf(func_inst(func_idx).locals[i])]
       IN frames' = push_stackframe(<<>>, <<>>, func_idx, func_ty(func_idx), locals, 0)
    /\ values' = <<>>
    /\ pc' = func_inst(func_idx).code_expr.from
    /\ outcome' = "running"
    /\ last' = NoLast
    /\ hist' = [hist EXCEPT !.calls = <<>>, !.before = outcome]
    /\ UNCHANGED <<mem, store_data, globals>>

----------------------------------------------------------------------------
(* Control instructions *)

\* history: the call the current function was entered by, none for the
\* function the invocation started in
Completed == IF hist.calls = <<>> THEN None ELSE Some(Top(hist.calls))

\* what END does to the stack, the frames, the reader and the invocation, when
\* the reader goes on after it whatever frames are left
EndEffect_going_on(fs, vs, at) ==
    LET r == pop_stackframe(fs, vs)
    IN [frames |-> r.frames,
        values |-> r.values,
        pc |-> at + 1,
        outcome |-> IF callframe_count(r.frames) = 0 THEN "Ok" ELSE "running"]

\* what END does to the stack, the frames, the reader and the invocation
EndEffect(fs, vs, at) ==
    LET r == pop_stackframe(fs, vs)
    IN [frames |-> r.frames,
        values |-> r.values,
        pc |-> IF callframe_count(r.frames) = 0 THEN at + 1 ELSE r.return_pc,
        outcome |-> IF callframe_count(r.frames) = 0 THEN "Ok" ELSE "running"]

\* END (interpreter_loop.rs 62-74); validation: exactly the results are on the stack
END ==
    /\ Running
    /\ pc <= BodyEnd
    /\ OperandTypes = func_ty(current_stackframe(frames).func_idx).returns
    /\ LET e == EndEffect(frames, values, pc)
       IN /\ frames' = e.frames
          /\ values' = e.values
          /\ pc' = e.pc
          /\ outcome' = e.outcome
    /\ last' = Executed("end", 0) @@ [call |-> Completed]
    /\ hist' = [hist EXCEPT !.calls = IF @ = <<>> THEN @ ELSE ButLast(@, 1)]
    /\ UNCHANGED <<mem, store_data, globals>>

\* what RETURN does to the stack, the frames, the reader and the invocation
ReturnEffect(fs, vs, at) ==
    LET func_to_call_idx == current_stackframe(fs).func_idx
        func_to_call_ty == func_ty(func_to_call_idx)
        n == Len(func_to_call_ty.returns)
        ret_vals == LastN(vs, n)
        cleared == clear_callframe_values(fs, ButLast(vs, n)) \o ret_vals
    IN IF callframe_count(fs) = 1
       THEN [frames |-> fs, values |-> cleared, pc |-> at + 1, outcome |-> "Ok"]
       ELSE LET r == pop_stackframe(fs, cleared)
            IN [frames |-> r.frames, values |-> r.values,
                pc |-> r.return_pc, outcome |-> "running"]

\* RETURN (interpreter_loop.rs 75-98); validation: the results are on top
RETURN ==
    /\ Running
    /\ pc + 1 <= BodyEnd
    /\ HasOperands(func_ty(current_stackframe(frames).func_idx).returns)
    /\ LET e == ReturnEffect(frames, values, pc)
       IN /\ frames' = e.frames
          /\ values' = e.values
          /\ pc' = e.pc
          /\ outcome' = e.outcome
    /\ last' = Executed("return", 0) @@ [call |-> Completed]
    /\ hist' = [hist EXCEPT !.calls = IF @ = <<>> THEN @ ELSE ButLast(@, 1)]
    /\ UNCHANGED <<mem, store_data, globals>>

\* CALL with the position of the call itself as the return address
CALL_returning_to_itself(func_to_call_idx) ==
    LET func_to_call_inst == func_inst(func_to_call_idx)
        func_to_call_ty == func_ty(func_to_call_idx)
        n == Len(func_to_call_ty.params)
        after == pc + 1 + ULebLen(NatToLimbs(func_to_call_idx, 2))
        params == LastN(values, n)
        remaining_locals == [i \in 1..Len(func_to_call_inst.locals) |->
                                ZeroOf(func_to_call_inst.locals[i])]
        popped == ButLast(values, n)
    IN /\ Running
       /\ after <= BodyEnd
       /\ callframe_count(frames) < MaxFrames
       /\ HasOperands(func_to_call_ty.params)
       /\ frames' = push_stackframe(frames, popped, func_to_call_idx, func_to_call_ty,
                                    params \o remaining_locals, pc)
       /\ values' = popped
       /\ pc' = func_to_call_inst.code_expr.from
       /\ last' = Executed("call", func_to_call_idx)
       /\ hist' = [hist EXCEPT !.calls = Append(@, Executed("call", func_to_call_idx))]
       /\ UNCHANGED <<mem, store_data, globals, outcome>>

\* CALL pushing the frame before the arguments are popped
CALL_counting_the_arguments(func_to_call_idx) ==
    LET func_to_call_inst == func_inst(func_to_call_idx)
        func_to_call_ty == func_ty(func_to_call_idx)
        n == Len(func_to_call_ty.params)
        after == pc + 1 + ULebLen(NatToLimbs(func_to_call_idx, 2))
        params == LastN(values, n)
        remaining_locals == [i \in 1..Len(func_to_call_inst.locals) |->
                                ZeroOf(func_to_call_inst.locals[i])]
        popped == ButLast(values, n)
    IN /\ Running
       /\ after <= BodyEnd
       /\ callframe_count(frames) < MaxFrames
       /\ HasOperands(func_to_call_ty.params)
       /\ frames' = push_stackframe(frames, values, func_to_call_idx, func_to_call_ty,
                                    params \o remaining_locals, after)
       /\ values' = popped
       /\ pc' = func_to_call_inst.code_expr.from
       /\ last' = Executed("call", func_to_call_idx)
       /\ hist' = [hist EXCEPT !.calls = Append(@, Executed("call", func_to_call_idx))]
       /\ UNCHANGED <<mem, store_data, globals, outcome>>

\* CALL (interpreter_loop.rs 99-114); validation: the arguments are on top
CALL(func_to_call_idx) ==
    LET func_to_call_inst == func_inst(func_to_call_idx)
        func_to_call_ty == func_ty(func_to_call_idx)
        n == Len(func_to_call_ty.params)
        after == pc + 1 + ULebLen(NatToLimbs(func_to_call_idx, 2))
        params == LastN(values, n)
        remaining_locals == [i \in 1..Len(func_to_call_inst.locals) |->
                                ZeroOf(func_to_call_inst.locals[i])]
        popped == ButLast(values, n)
    IN /\ Running
       /\ after <= BodyEnd
       /\ callframe_count(frames) < MaxFrames
       /\ HasOperands(func_to_call_ty.params)
       /\ frames' = push_stackframe(frames, popped, func_to_call_idx, func_to_call_ty,
                                    params \o remaining_locals, after)
       /\ values' = popped
       /\ pc' = func_to_call_inst.code_expr.from
       /\ last' = Executed("call", func_to_call_idx)
       /\ hist' = [hist EXCEPT !.calls = Append(@, Executed("call", func_to_call_idx))]
       /\ UNCHANGED <<mem, store_data, globals, outcome>>

\* GLOBAL_GET (interpreter_loop.rs 125-130)
GLOBAL_GET(global_idx) ==
    LET after == pc + 1 + ULebLen(NatToLimbs(global_idx, 2))
    IN /\ Running
       /\ after <= BodyEnd
       /\ Len(values) < MaxValues
       /\ global_idx < Len(globals)
       /\ values' = Append(values, globals[global_idx + 1].value)
       /\ pc' = after
       /\ last' = Executed("global.get", global_idx)
       /\ UNCHANGED <<mem, store_data, globals, frames, outcome, hist>>

\* the same, writing to the first global whatever the index
GLOBAL_SET_to_the_first_global(global_idx) ==
    LET after == pc + 1 + ULebLen(NatToLimbs(global_idx, 2))
    IN /\ Running
       /\ after <= BodyEnd
       /\ global_idx < Len(globals)
       /\ globals[global_idx + 1].is_mut
       /\ HasOperands(<<globals[global_idx + 1].ty>>)
       /\ globals' = [globals EXCEPT ![1].value = Top(values)]
       /\ values' = ButLast(values, 1)
       /\ pc' = after
       /\ last' = Executed("global.set", global_idx)
       /\ UNCHANGED <<mem, store_data, frames, outcome, hist>>

\* GLOBAL_SET (interpreter_loop.rs 131-136); validation: the global is mutable
\* and a value of its type is on top
GLOBAL_SET(global_idx) ==
    LET after == pc + 1 + ULebLen(NatToLimbs(global_idx, 2))
    IN /\ Running
       /\ after <= BodyEnd
       /\ global_idx < Len(globals)
       /\ globals[global_idx + 1].is_mut
       /\ HasOperands(<<globals[global_idx + 1].ty>>)
       /\ globals' = [globals EXCEPT ![global_idx + 1].value = Top(values)]
       /\ values' = ButLast(values, 1)
       /\ pc' = after
       /\ last' = Executed("global.set", global_idx)
       /\ UNCHANGED <<mem, store_data, frames, outcome, hist>>

\* DROP (interpreter_loop.rs 115-117)
DROP ==
    /\ Running
    /\ pc + 1 <= BodyEnd
    /\ Len(OperandTypes) >= 1
    /\ values' = ButLast(values, 1)
    /\ pc' = pc + 1
    /\ last' = NoLast
    /\ UNCHANGED <<mem, store_data, globals, frames, outcome, hist>>

\* LOCAL_GET (interpreter_loop.rs 118-122)
LOCAL_GET(local_idx) ==
    LET after == pc + 1 + ULebLen(NatToLimbs(local_idx, 2))
    IN /\ Running
       /\ after <= BodyEnd
       /\ Len(values) < MaxValues
       /\ local_idx < Len(current_stackframe(frames).locals)
       /\ values' = Append(values, current_stackframe(frames).locals[local_idx + 1])
       /\ pc' = after
       /\ last' = NoLast
       /\ UNCHANGED <<mem, store_data, globals, frames, outcome, hist>>

\* I32_CONST (interpreter_loop.rs 751-755)
I32_CONST(constant) ==
    /\ Running
    /\ pc + 1 + SLebLen(constant) <= BodyEnd
    /\ Len(values) < MaxValues
    /\ values' = Append(values, I32(constant))
    /\ pc' = pc + 1 + SLebLen(constant)
    /\ last' = NoLast
    /\ UNCHANGED <<mem, store_data, globals, frames, outcome, hist>>

\* an instruction that pushes a literal and goes on at `after`
PushLiteral(value, after) ==
    /\ Running
    /\ after <= BodyEnd
    /\ Len(values) < MaxValues
    /\ values' = Append(values, value)
    /\ pc' = after
    /\ last' = NoLast
    /\ UNCHANGED <<mem, store_data, globals, frames, outcome, hist>>

\* I64_CONST (interpreter_loop.rs 1090-1094)
I64_CONST(constant) == PushLiteral(I64(constant), pc + 1 + SLebLen(constant))

\* F32_CONST (interpreter_loop.rs 756-760): four bytes, the bit pattern
F32_CONST(bits) == PushLiteral(F32(bits), pc + 1 + 4)

\* F64_CONST (interpreter_loop.rs 1095-1099): eight bytes, the bit pattern
F64_CONST(bits) == PushLiteral(F64(bits), pc + 1 + 8)

----------------------------------------------------------------------------
(* Memory loads and stores *)

\* the handler goes on to the next instruction with result v pushed on vs
Push(vs, v, newpc, op, imm) ==
    /\ values' = Append(vs, v)
    /\ pc' = newpc
    /\ last' = Executed(op, imm)
    /\ UNCHANGED <<mem, store_data, globals, frames, outcome, hist>>

\* MemArg::read_unvalidated: the reader steps over align and offset
AfterMemArg(memarg) == pc + 1 + ULebLen(memarg.align) + ULebLen(memarg.offset)

\* memarg.offset.checked_add(relative_address).and_then(|address|
\*     mem.data.get(address..(address + w))): the bytes read, or None
load_bytes(data, memarg, relative_address, w) ==
    LET address == checked_add(memarg.offset, relative_address)
    IN IF address = None THEN None ELSE slice_get(data, ZeroExtend(address[1], 4), w)

\* the value each load handler makes of the bytes it read
Loaded(op, d) ==
    CASE op = "i32.load" -> I32(from_le_bytes(d))
      [] op = "i64.load" -> I64(from_le_bytes(d))
      [] op = "f32.load" -> F32(from_le_bytes(d))
      [] op = "f64.load" -> F64(from_le_bytes(d))
      [] op = "i32.load8_s" -> I32(NarrowAs(u8_as_i8(u8_from_le_bytes(d)), 2))
      [] op = "i32.load8_u" -> I32(NarrowAs(u8_from_le_bytes(d), 2))
      [] op = "i32.load16_s" -> I32(NarrowAs(u16_as_i16(u16_from_le_bytes(d)), 2))
      [] op = "i32.load16_u" -> I32(NarrowAs(u16_from_le_bytes(d), 2))
      [] op = "i64.load8_s" -> I64(NarrowAs(u8_as_i8(u8_from_le_bytes(d)), 4))
      [] op = "i64.load8_u" -> I64(NarrowAs(u8_from_le_bytes(d), 4))
      [] op = "i64.load16_s" -> I64(NarrowAs(u16_as_i16(u16_from_le_bytes(d)), 4))
      [] op = "i64.load16_u" -> I64(NarrowAs(u16_from_le_bytes(d), 4))
      [] op = "i64.load32_s" -> I64(SignExtend(from_le_bytes(d), 4))
      [] op = "i64.load32_u" -> I64(ZeroExtend(from_le_bytes(d), 4))

\* a load handler: pops the address, reads w bytes, pushes the value made of them
Load(op, memarg, w) ==
    LET relative_address == Top(values).bits
        popped == ButLast(values, 1)
        data == load_bytes(mem.data, memarg, relative_address, w)
    IN /\ Running
       /\ AfterMemArg(memarg) <= BodyEnd
       /\ HasOperands(<<"I32">>)
       /\ IF data = None
          THEN Trap("MemoryAccessOutOfBounds", popped, AfterMemArg(memarg), op, memarg)
          ELSE Push(popped, Loaded(op, data[1]), AfterMemArg(memarg), op, memarg)

I32_LOAD(memarg) == Load("i32.load", memarg, 4)
I64_LOAD(memarg) == Load("i64.load", memarg, 8)
F32_LOAD(memarg) == Load("f32.load", memarg, 4)
F64_LOAD(memarg) == Load("f64.load", memarg, 8)
I32_LOAD8_S(memarg) == Load("i32.load8_s", memarg, 1)
I32_LOAD8_U(memarg) == Load("i32.load8_u", memarg, 1)
I32_LOAD16_S(memarg) == Load("i32.load16_s", memarg, 2)
I32_LOAD16_U(memarg) == Load("i32.load16_u", memarg, 2)
I64_LOAD8_S(memarg) == Load("i64.load8_s", memarg, 1)
I64_LOAD8_U(memarg) == Load("i64.load8_u", memarg, 1)
I64_LOAD16_S(memarg) == Load("i64.load16_s", memarg, 2)
I64_LOAD16_U(memarg) == Load("i64.load16_u", memarg, 2)
I64_LOAD32_S(memarg) == Load("i64.load32_s", memarg, 4)
I64_LOAD32_U(memarg) == Load("i64.load32_u", memarg, 4)

\* Value -> u32 (`.into()`), as a set of outcomes: None is a panic.  The
\* conversion of a Value of another tag is not defined by the sources at hand:
\* it panics or it keeps the low 32 bits.
into_u32(v) ==
    IF v.ty = "I32" THEN {Some(v.bits)} ELSE {None, Some(Truncate(v.bits, 2))}

\* the same, each narrow store taking the operand's high bytes
StoredBytes_high_bytes(op, data_to_store) ==
    LET bytes == to_le_bytes(data_to_store)
    IN CASE op \in {"i32.store", "i64.store", "f32.store", "f64.store"} -> bytes
         [] op \in {"i32.store8", "i64.store8"} -> SubSeq(bytes, Len(bytes), Len(bytes))
         [] op \in {"i32.store16", "i64.store16"} -> SubSeq(bytes, Len(bytes) - 1, Len(bytes))
         [] op = "i64.store32" -> SubSeq(bytes, Len(bytes) - 3, Len(bytes))

\* the bytes each store handler copies into the window: a slice of
\* data_to_store.to_le_bytes()
StoredBytes(op, data_to_store) ==
    CASE op \in {"i32.store", "i64.store", "f32.store", "f64.store"} ->
            to_le_bytes(data_to_store)
      [] op \in {"i32.store8", "i64.store8"} -> SubSeq(to_le_bytes(data_to_store), 1, 1)
      [] op \in {"i32.store16", "i64.store16"} -> SubSeq(to_le_bytes(data_to_store), 1, 2)
      [] op = "i64.store32" -> SubSeq(to_le_bytes(data_to_store), 1, 4)

\* a store handler: pops the operand (of type ty) and the address, takes the w
\* bytes at the effective address and copies the operand's bytes into them.
\* `popped_value` is the outcome of the operand's conversion, None when it
\* panicked.
Store(op, memarg, ty, w, popped_value) ==
    LET relative_address == Nth(values, 1).bits
        address == checked_add(memarg.offset, relative_address)
        memory_location ==
            IF address = None THEN None
            ELSE slice_get(mem.data, ZeroExtend(address[1], 4), w)
        popped1 == ButLast(values, 1)
        popped2 == ButLast(values, 2)
    IN /\ Running
       /\ AfterMemArg(memarg) <= BodyEnd
       /\ HasOperands(<<"I32", ty>>)
       /\ IF popped_value = None
          THEN Panic(popped1, AfterMemArg(memarg), op, memarg)
          ELSE IF memory_location = None
          THEN Trap("MemoryAccessOutOfBounds", popped2, AfterMemArg(memarg), op, memarg)
          ELSE IF Len(StoredBytes(op, popped_value[1])) # w
          \* copy_from_slice panics when the two slices differ in length
          THEN Panic(popped2, AfterMemArg(memarg), op, memarg)
          ELSE /\ mem' = [mem EXCEPT !.data =
                            slice_write(mem.data, ZeroExtend(address[1], 4),
                                        StoredBytes(op, popped_value[1]))]
               /\ values' = popped2
               /\ pc' = AfterMemArg(memarg)
               /\ last' = Executed(op, memarg)
               /\ hist' = [hist EXCEPT !.store =
                             Some([op |-> op, address |-> address[1],
                                   value |-> Top(values)])]
               /\ UNCHANGED <<store_data, globals, frames, outcome>>

\* I32_STORE: the window is address..(address + 4)
I32_STORE(memarg) == Store("i32.store", memarg, "I32", 4, Some(Top(values).bits))
\* I64_STORE: the operand is popped as u32, the window is address..(address + 8)
I64_STORE(memarg) ==
    /\ Running
    /\ HasOperands(<<"I32", "I64">>)
    /\ \E data_to_store \in into_u32(Top(values)) :
          Store("i64.store", memarg, "I64", 8, data_to_store)
\* F32_STORE: the window is address..(address + 4)
F32_STORE(memarg) == Store("f32.store", memarg, "F32", 4, Some(Top(values).bits))
\* F64_STORE: the operand is popped as f64, the window is address..(address + 4)
F64_STORE(memarg) == Store("f64.store", memarg, "F64", 4, Some(Top(values).bits))
I32_STORE8(memarg) == Store("i32.store8", memarg, "I32", 1, Some(Top(values).bits))
I32_STORE16(memarg) == Store("i32.store16", memarg, "I32", 2, Some(Top(values).bits))
I64_STORE8(memarg) == Store("i64.store8", memarg, "I64", 1, Some(Top(values).bits))
I64_STORE16(memarg) == Store("i64.store16", memarg, "I64", 2, Some(Top(values).bits))
I64_STORE32(memarg) == Store("i64.store32", memarg, "I64", 4, Some(Top(values).bits))

----------------------------------------------------------------------------
(* memory.size and memory.grow *)

\* MEMORY_SIZE (interpreter_loop.rs 711-723)
MEMORY_SIZE ==
    LET size == NatToLimbs(MemInst_size(mem), 2)
    IN /\ Running
       /\ pc + 2 <= BodyEnd
       /\ Len(values) < MaxValues
       /\ Push(values, I32(size), pc + 2, "memory.size", 0)

\* the limit of memory.grow: the declared maximum, else MAX_PAGES
upper_limit(m) == IF m.ty.limits.max # None THEN m.ty.limits.max[1] ELSE MAX_PAGES

\* grow_refused without the test against the limit
grow_refused_only_negative(m, delta) == IsNegative(delta)

\* grow_refused with >= in the place of >
grow_refused_at_limit(m, delta) ==
    \/ IsNegative(delta)
    \/ Le(NatToLimbs(upper_limit(m), 2), AddLimbs(delta, NatToLimbs(MemInst_size(m), 2)))

\* the test of memory.grow: delta < 0 || delta as u32 + mem.size() as u32 > upper_limit
grow_refused(m, delta) ==
    \/ IsNegative(delta)
    \/ Lt(NatToLimbs(upper_limit(m), 2), AddLimbs(delta, NatToLimbs(MemInst_size(m), 2)))

\* MEMORY_GROW (interpreter_loop.rs 724-750)
MEMORY_GROW ==
    LET delta == Top(values).bits
        popped == ButLast(values, 1)
    IN /\ Running
       /\ pc + 2 <= BodyEnd
       /\ HasOperands(<<"I32">>)
       /\ pc' = pc + 2
       /\ last' = Executed("memory.grow", 0)
       /\ IF grow_refused(mem, delta)
          THEN /\ values' = Append(popped, I32(U32(65535, 65535)))
               /\ UNCHANGED <<mem, store_data, globals, hist>>
          ELSE /\ ToNat(delta) > 0 => hist.n < MaxGrows
               /\ mem' = MemInst_grow(mem, ToNat(delta))
               /\ values' = Append(popped, I32(NatToLimbs(MemInst_size(mem), 2)))
               /\ hist' = [hist EXCEPT !.n = @ + (IF ToNat(delta) > 0 THEN 1 ELSE 0),
                                        !.sum = @ + ToNat(delta)]
       /\ UNCHANGED <<store_data, globals, frames, outcome>>

----------------------------------------------------------------------------
(* Bulk memory: memory.copy and memory.fill.  d, s and n are i32: their      *)
(* arithmetic overflows at 2^31, where a build with overflow checks (the     *)
(* default of the dev and test profiles) panics and one without wraps.       *)

\* i32 addition: the wrapped sum, and whether it overflowed
i32_add(a, b) ==
    LET sum == AddLimbs(a, b)
    IN [bits |-> sum,
        overflow |-> IsNegative(a) = IsNegative(b) /\ IsNegative(sum) # IsNegative(a)]

\* a <= b on i32
i32_le(a, b) ==
    IF IsNegative(a) # IsNegative(b) THEN IsNegative(a) ELSE Le(a, b)

\* n > 0 on i32
i32_positive(n) == ~IsNegative(n) /\ n # <<0, 0>>

One == <<1, 0>>
MinusOne == <<Limb - 1, Limb - 1>>

\* the bounds check with >= for >: a range ending at the end is refused
PastEnd_at_end(data, x, n) ==
    Le(data.len, AddLimbs(ZeroExtend(x, 4), ZeroExtend(n, 4)))

\* `x as usize + n as usize > data.len()` for non-negative i32 x and n
PastEnd(data, x, n) ==
    Lt(data.len, AddLimbs(ZeroExtend(x, 4), ZeroExtend(n, 4)))

\* one i32.store8 {offset 0} of the low byte of `val` at address `at` (a u32);
\* None when the byte lies past the end
store8(data, at, val) ==
    IF slice_get(data, ZeroExtend(at, 4), 1) = None THEN None
    ELSE Some(slice_write(data, ZeroExtend(at, 4), SubSeq(to_le_bytes(val), 1, 1)))

\* the loop of MEMORY_COPY (interpreter_loop.rs 2138-2209): the memory it leaves
\* and how it ended ("done", "panic" or "MemoryAccessOutOfBounds")
RECURSIVE copy_loop(_, _, _, _, _)
copy_loop(data, d, s, n, overflow_checks) ==
    IF ~i32_positive(n) THEN [data |-> data, end |-> "done"]
    ELSE
    LET is_d_less_or_equal_to_s == i32_le(d, s)
        dn == i32_add(d, n)
        dn1 == i32_add(dn.bits, MinusOne)
        sn == i32_add(s, n)
        sn1 == i32_add(sn.bits, MinusOne)
        temp_d == IF is_d_less_or_equal_to_s THEN d ELSE dn1.bits
        temp_s == IF is_d_less_or_equal_to_s THEN s ELSE sn1.bits
        overflow_temp == ~is_d_less_or_equal_to_s
                         /\ (dn.overflow \/ dn1.overflow \/ sn.overflow \/ sn1.overflow)
        \* i32.load8_u {offset 0}, pushed as Value::I32(data as u32)
        loaded == slice_get(data, ZeroExtend(temp_s, 4), 1)
        pushed == NarrowAs(u8_from_le_bytes(loaded[1]), 2)
        \* i32.store8 {offset 0} of the value popped again
        stored == store8(data, temp_d, pushed)
        d1 == i32_add(d, One)
        s1 == i32_add(s, One)
    IN IF overflow_checks /\ overflow_temp THEN [data |-> data, end |-> "panic"]
       ELSE IF loaded = None THEN [data |-> data, end |-> "MemoryAccessOutOfBounds"]
       ELSE IF stored = None THEN [data |-> data, end |-> "MemoryAccessOutOfBounds"]
       ELSE IF is_d_less_or_equal_to_s /\ overflow_checks /\ (d1.overflow \/ s1.overflow)
       THEN [data |-> stored[1], end |-> "panic"]
       ELSE copy_loop(stored[1],
                      IF is_d_less_or_equal_to_s THEN d1.bits ELSE d,
                      IF is_d_less_or_equal_to_s THEN s1.bits ELSE s,
                      AddLimbs(n, MinusOne), overflow_checks)

\* the loop of MEMORY_FILL (interpreter_loop.rs 2234-2264)
RECURSIVE fill_loop(_, _, _, _, _)
fill_loop(data, d, val, n, overflow_checks) ==
    IF ~i32_positive(n) THEN [data |-> data, end |-> "done"]
    ELSE
    LET stored == store8(data, d, val)
        d1 == i32_add(d, One)
    IN IF stored = None THEN [data |-> data, end |-> "MemoryAccessOutOfBounds"]
       ELSE IF overflow_checks /\ d1.overflow THEN [data |-> stored[1], end |-> "panic"]
       ELSE fill_loop(stored[1], d1.bits, val, AddLimbs(n, MinusOne), overflow_checks)

\* the end of a bulk instruction whose loop left `r`
BulkEnd(r, popped, after, op, imm) ==
    /\ mem' = [mem EXCEPT !.data = r.data]
    /\ outcome' = IF r.end = "done" THEN outcome ELSE r.end
    /\ values' = popped
    /\ pc' = after
    /\ last' = Executed(op, imm)
    /\ hist' = [hist EXCEPT !.store = IF r.data = mem.data THEN @ ELSE None]
    /\ UNCHANGED <<store_data, globals, frames>>

\* MEMORY_COPY (interpreter_loop.rs 2116-2212)
MEMORY_COPY(overflow_checks) ==
    LET n == Top(values).bits
        s == Nth(values, 1).bits
        d == Nth(values, 2).bits
        popped == ButLast(values, 3)
        after == pc + 4
    IN /\ Running
       /\ after <= BodyEnd
       /\ HasOperands(<<"I32", "I32", "I32">>)
       /\ IF IsNegative(n) \/ IsNegative(s) \/ IsNegative(d)
          THEN Trap("MemoryAccessOutOfBounds", popped, after, "memory.copy", overflow_checks)
          ELSE IF PastEnd(mem.data, s, n) \/ PastEnd(mem.data, d, n)
          THEN Trap("MemoryAccessOutOfBounds", popped, after, "memory.copy", overflow_checks)
          ELSE /\ Le(n, NatToLimbs(MaxBulk, 2))
               /\ BulkEnd(copy_loop(mem.data, d, s, n, overflow_checks),
                          popped, after, "memory.copy", overflow_checks)

\* MEMORY_FILL (interpreter_loop.rs 2213-2267)
MEMORY_FILL(overflow_checks) ==
    LET n == Top(values).bits
        val == Nth(values, 1).bits
        d == Nth(values, 2).bits
        popped == ButLast(values, 3)
        after == pc + 3
    IN /\ Running
       /\ after <= BodyEnd
       /\ HasOperands(<<"I32", "I32", "I32">>)
       /\ IF IsNegative(n) \/ IsNegative(d)
          THEN Trap("MemoryAccessOutOfBounds", popped, after, "memory.fill", overflow_checks)
          ELSE IF PastEnd(mem.data, n, d)
          THEN Trap("MemoryAccessOutOfBounds", popped, after, "memory.fill", overflow_checks)
          ELSE /\ Le(n, NatToLimbs(MaxBulk, 2))
               /\ BulkEnd(fill_loop(mem.data, d, val, n, overflow_checks),
                          popped, after, "memory.fill", overflow_checks)

\* the bounds check with >= for >: a range ending at the end is refused
PastEndOfInit_at_end(init, s, n) ==
    Le(NatToLimbs(Len(init), 4), AddLimbs(ZeroExtend(s, 4), ZeroExtend(n, 4)))

\* `s as usize + n as usize > data.init.len()` for non-negative i32 s and n
PastEndOfInit(init, s, n) ==
    Lt(NatToLimbs(Len(init), 4), AddLimbs(ZeroExtend(s, 4), ZeroExtend(n, 4)))

\* the loop of MEMORY_INIT (interpreter_loop.rs 2068-2097), entered with
\* s + n <= init.len(): one i32.store8 {offset 0} per byte of the segment
RECURSIVE init_loop(_, _, _, _, _, _)
init_loop(data, init, d, s, n, overflow_checks) ==
    IF n = <<0, 0>> THEN [data |-> data, end |-> "done"]
    ELSE
    LET b == init[ToNat(s) + 1]
        data_to_store == NatToLimbs(b, 2)
        stored == store8(data, d, data_to_store)
        d1 == i32_add(d, One)
        s1 == i32_add(s, One)
    IN IF stored = None THEN [data |-> data, end |-> "MemoryAccessOutOfBounds"]
       ELSE IF overflow_checks /\ (d1.overflow \/ s1.overflow)
       THEN [data |-> stored[1], end |-> "panic"]
       ELSE init_loop(stored[1], init, d1.bits, s1.bits, AddLimbs(n, MinusOne),
                      overflow_checks)

\* MEMORY_INIT (interpreter_loop.rs 2043-2100), data_idx validated
MEMORY_INIT(data_idx, overflow_checks) ==
    LET n == Top(values).bits
        s == Nth(values, 1).bits
        d == Nth(values, 2).bits
        popped == ButLast(values, 3)
        after == pc + 2 + ULebLen(NatToLimbs(data_idx, 2)) + 1
        imm == [data_idx |-> data_idx, overflow_checks |-> overflow_checks]
    IN /\ Running
       /\ after <= BodyEnd
       /\ data_idx < Len(store_data)
       /\ HasOperands(<<"I32", "I32", "I32">>)
       /\ LET data == store_data[data_idx + 1]
          IN IF IsNegative(n) \/ IsNegative(s) \/ IsNegative(d)
             THEN Trap("MemoryAccessOutOfBounds", popped, after, "memory.init", imm)
             ELSE IF PastEndOfInit(data.init, s, n) \/ PastEnd(mem.data, d, n)
             THEN Trap("MemoryAccessOutOfBounds", popped, after, "memory.init", imm)
             ELSE BulkEnd(init_loop(mem.data, data.init, d, s, n, overflow_checks),
                          popped, after, "memory.init", imm)

\* a dropped segment that forgets its mode
dropped_as_passive(segment) == DataSegment(<<>>, Passive)

\* the segment DATA_DROP leaves: no bytes, the mode cloned
dropped(segment) == DataSegment(<<>>, segment.mode)

\* DATA_DROP (interpreter_loop.rs 2101-2115), data_idx validated
DATA_DROP(data_idx) ==
    LET after == pc + 2 + ULebLen(NatToLimbs(data_idx, 2))
    IN /\ Running
       /\ after <= BodyEnd
       /\ data_idx < Len(store_data)
       /\ store_data' = [store_data EXCEPT ![data_idx + 1] = dropped(@)]
       /\ pc' = after
       /\ last' = Executed("data.drop", data_idx)
       /\ UNCHANGED <<mem, globals, values, frames, outcome, hist>>

----------------------------------------------------------------------------
(* Calls and returns: the behaviours of the control instructions *)

\* the i32 constants and arguments of the explored programs
CallInputs == { U32(0, 1), U32(0, 2) }

ArgsOf(func_idx) ==
    LET n == Len(func_ty(func_idx).params)
    IN { [i \in 1..n |-> I32(f[i])] : f \in [1..n -> CallInputs] }

InitCall == Instantiated([min |-> 1, max |-> Some(1)], NoData)

\* a transition of the explored behaviours of calls and returns
CallStep(A) ==
    /\ A
    /\ Len(values') <= MaxCallValues
    /\ UNCHANGED <<steps, reader, validation>>

NextCall ==
    \/ \E f \in CallFuncs : \E args \in ArgsOf(f) : CallStep(Invoke(f, args))
    \/ \E c \in CallInputs : CallStep(I32_CONST(c))
    \/ \E i \in 0..2 : CallStep(LOCAL_GET(i))
    \/ CallStep(DROP)
    \/ \E f \in CallFuncs : CallStep(CALL(f))
    \/ CallStep(END)
    \/ CallStep(RETURN)

SpecCall == InitCall /\ [][NextCall]_vars

----------------------------------------------------------------------------
(* Frames: the behaviours of calls whose callee copies memory above the    *)
(* values of its caller                                                    *)

\* the i32 constants of the explored programs, the functions invoked and the
\* functions called
FrameInputs == { U32(0, 0), U32(0, 1) }
FrameCallers == {0, 1}
FrameCallees == {2, 4}

InitFrames == Instantiated([min |-> 1, max |-> Some(1)], DataAtTwo)

\* a transition of the explored behaviours
FrameStep(A) ==
    /\ steps < MaxFrameSteps
    /\ A
    /\ steps' = steps + 1
    /\ UNCHANGED <<reader, validation>>

NextFrames ==
    \/ \E f \in FrameCallers : FrameStep(Invoke(f, <<>>))
    \/ \E c \in FrameInputs : FrameStep(I32_CONST(c))
    \/ FrameStep(DROP)
    \/ \E f \in FrameCallees : FrameStep(CALL(f))
    \/ \E overflow_checks \in BOOLEAN : FrameStep(MEMORY_COPY(overflow_checks))
    \/ FrameStep(END)
    \/ FrameStep(RETURN)

SpecFrames == InitFrames /\ [][NextFrames]_vars

----------------------------------------------------------------------------
(* Instances: the behaviours of invocations that do not write the memory, *)
(* on modules with data segments                                          *)

\* the modules explored: the two segments of tests/memory_copy.rs, an active,
\* a passive and an active segment, and two segments that overlap
InitInstance ==
    \/ InstantiatedModule([min |-> 1, max |-> Some(1)], <<DataAtTwo, DataAtTwelve>>)
    \/ InstantiatedModule([min |-> 1, max |-> Some(1)],
                          <<DataLow, PassiveData, DataAtTwelve>>)
    \/ InstantiatedModule([min |-> 1, max |-> Some(1)], <<DataLow, DataAtTwo>>)

\* a transition of the explored behaviours of an instance
InstanceStep(A) ==
    /\ A
    /\ Len(values') <= MaxInstanceValues
    /\ Len(frames') <= MaxInstanceFrames
    /\ UNCHANGED <<steps, reader, validation>>

NextInstance ==
    \/ \E f \in CallFuncs : \E args \in ArgsOf(f) : InstanceStep(Invoke(f, args))
    \/ \E c \in CallInputs : InstanceStep(I32_CONST(c))
    \/ \E f \in CallFuncs : InstanceStep(CALL(f))
    \/ InstanceStep(END)
    \/ InstanceStep(RETURN)

SpecInstance == InitInstance /\ [][NextInstance]_vars

----------------------------------------------------------------------------
(* Loads and stores: the behaviours of invocations that access the memory *)

\* the i32 operands explored: addresses and stored values
I32Inputs ==
    { U32(0, 0), U32(0, 1),
      U32(65535, 65535),        \* 0xFFFFFFFF, -1
      U32(13398, 52719) }       \* 0x3456CDEF

\* the i64 operands explored
I64Inputs == { U64(1893, 17185, 46166, 52719) }     \* 0x07654321B456CDEF

\* the f32 and f64 bit patterns explored
F32Inputs == { U32(16457, 4059) }                   \* 0x40490FDB
F64Inputs == { U64(16393, 8699, 21572, 11544) }     \* 0x400921FB54442D18

\* the memarg immediates explored for an access of w bytes: with the addresses
\* 0 and 1 the second offset reaches both sides of the end of a one-page memory
MemArgs(w) ==
    { [align |-> U32(0, 0), offset |-> o] : o \in { U32(0, 0), U32(0, 65536 - w) } }

Init == Instantiated([min |-> 1, max |-> Some(1)], NoData)

\* a transition of the explored behaviours of loads and stores
StoreStep(A) ==
    /\ steps < MaxStoreSteps
    /\ A
    /\ Len(values') <= MaxStoreValues
    /\ steps' = steps + 1
    /\ UNCHANGED <<reader, validation>>

Next ==
    \/ \E f \in MemFuncs : StoreStep(Invoke(f, <<>>))
    \/ \E c \in I32Inputs : StoreStep(I32_CONST(c))
    \/ \E c \in I64Inputs : StoreStep(I64_CONST(c))
    \/ \E b \in F32Inputs : StoreStep(F32_CONST(b))
    \/ \E b \in F64Inputs : StoreStep(F64_CONST(b))
    \/ \E m \in MemArgs(4) : StoreStep(I32_LOAD(m))
    \/ \E m \in MemArgs(8) : StoreStep(I64_LOAD(m))
    \/ \E m \in MemArgs(4) : StoreStep(F32_LOAD(m))
    \/ \E m \in MemArgs(8) : StoreStep(F64_LOAD(m))
    \/ \E m \in MemArgs(1) : StoreStep(I32_LOAD8_S(m))
    \/ \E m \in MemArgs(1) : StoreStep(I32_LOAD8_U(m))
    \/ \E m \in MemArgs(2) : StoreStep(I32_LOAD16_S(m))
    \/ \E m \in MemArgs(2) : StoreStep(I32_LOAD16_U(m))
    \/ \E m \in MemArgs(1) : StoreStep(I64_LOAD8_S(m))
    \/ \E m \in MemArgs(1) : StoreStep(I64_LOAD8_U(m))
    \/ \E m \in MemArgs(2) : StoreStep(I64_LOAD16_S(m))
    \/ \E m \in MemArgs(2) : StoreStep(I64_LOAD16_U(m))
    \/ \E m \in MemArgs(4) : StoreStep(I64_LOAD32_S(m))
    \/ \E m \in MemArgs(4) : StoreStep(I64_LOAD32_U(m))
    \/ \E m \in MemArgs(4) : StoreStep(I32_STORE(m))
    \/ \E m \in MemArgs(8) : StoreStep(I64_STORE(m))
    \/ \E m \in MemArgs(4) : StoreStep(F32_STORE(m))
    \/ \E m \in MemArgs(8) : StoreStep(F64_STORE(m))
    \/ \E m \in MemArgs(1) : StoreStep(I32_STORE8(m))
    \/ \E m \in MemArgs(2) : StoreStep(I32_STORE16(m))
    \/ \E m \in MemArgs(1) : StoreStep(I64_STORE8(m))
    \/ \E m \in MemArgs(2) : StoreStep(I64_STORE16(m))
    \/ \E m \in MemArgs(4) : StoreStep(I64_STORE32(m))
    \/ StoreStep(END)

Spec == Init /\ [][Next]_vars

\* the stores alone, on a memory that holds the bytes of an active data segment
InitStores == Instantiated([min |-> 1, max |-> Some(1)], DataAtTwo)

NextStores ==
    \/ \E f \in MemFuncs : StoreStep(Invoke(f, <<>>))
    \/ \E c \in I32Inputs : StoreStep(I32_CONST(c))
    \/ \E c \in I64Inputs : StoreStep(I64_CONST(c))
    \/ \E b \in F32Inputs : StoreStep(F32_CONST(b))
    \/ \E b \in F64Inputs : StoreStep(F64_CONST(b))
    \/ \E m \in MemArgs(4) : StoreStep(I32_STORE(m))
    \/ \E m \in MemArgs(8) : StoreStep(I64_STORE(m))
    \/ \E m \in MemArgs(4) : StoreStep(F32_STORE(m))
    \/ \E m \in MemArgs(8) : StoreStep(F64_STORE(m))
    \/ \E m \in MemArgs(1) : StoreStep(I32_STORE8(m))
    \/ \E m \in MemArgs(2) : StoreStep(I32_STORE16(m))
    \/ \E m \in MemArgs(1) : StoreStep(I64_STORE8(m))
    \/ \E m \in MemArgs(2) : StoreStep(I64_STORE16(m))
    \/ \E m \in MemArgs(4) : StoreStep(I64_STORE32(m))
    \/ StoreStep(END)

SpecStores == InitStores /\ [][NextStores]_vars

----------------------------------------------------------------------------
(* memory.size and memory.grow: the behaviours of invocations that grow the  *)
(* memory                                                                   *)

\* the deltas explored
GrowInputs ==
    { U32(0, 0), U32(0, 1), U32(0, 4),
      U32(0, 65535),            \* 0x0000FFFF
      U32(32767, 65535),        \* 0x7FFFFFFF, i32::MAX
      U32(65535, 65535) }       \* 0xFFFFFFFF, -1

InitGrow ==
    \E decl \in MemDecls : \E segment \in {NoData, DataLow} :
        /\ segment = DataLow => decl.min > 0
        /\ Instantiated(decl, segment)

\* a transition of the explored behaviours of memory.size and memory.grow
GrowStep(A) ==
    /\ A
    /\ Len(values') <= MaxGrowValues
    /\ UNCHANGED <<steps, reader, validation>>

NextGrow ==
    \/ \E f \in MemFuncs : GrowStep(Invoke(f, <<>>))
    \/ \E c \in GrowInputs : GrowStep(I32_CONST(c))
    \/ GrowStep(DROP)
    \/ GrowStep(MEMORY_SIZE)
    \/ GrowStep(MEMORY_GROW)
    \/ GrowStep(END)

SpecGrow == InitGrow /\ [][NextGrow]_vars

----------------------------------------------------------------------------
(* memory.copy and memory.fill: the behaviours of invocations that move      *)
(* bytes                                                                    *)

\* the i32 operands explored: addresses, lengths and fill values
BulkInputs ==
    { U32(0, 0), U32(0, 1), U32(0, 2), U32(0, 3),
      U32(0, 65535),            \* 0x0000FFFF
      U32(1, 0),                \* 0x00010000, the length of a one-page memory
      U32(32767, 65534),        \* 0x7FFFFFFE
      U32(32767, 65535),        \* 0x7FFFFFFF, i32::MAX
      U32(32768, 0),            \* 0x80000000, i32::MIN
      U32(65535, 65535),        \* 0xFFFFFFFF, -1
      U32(13398, 52719) }       \* 0x3456CDEF

\* the data indices of the explored programs
DataIdxs == {0, 1}

InitBulk ==
    \/ InstantiatedModule([min |-> 1, max |-> Some(1)], <<DataLow, PassiveData>>)
    \/ InstantiatedModule([min |-> 32768, max |-> None], <<NoData, PassiveData>>)
    \/ InstantiatedModule([min |-> 32769, max |-> None], <<DataHigh, PassiveData>>)

\* a transition of the explored behaviours of the bulk memory instructions
BulkStep(A) ==
    /\ steps < MaxBulkSteps
    /\ A
    /\ Len(values') <= MaxBulkValues
    /\ steps' = steps + 1
    /\ UNCHANGED <<reader, validation>>

NextBulk ==
    \/ \E f \in MemFuncs : BulkStep(Invoke(f, <<>>))
    \/ \E c \in BulkInputs : BulkStep(I32_CONST(c))
    \/ BulkStep(DROP)
    \/ \E overflow_checks \in BOOLEAN : BulkStep(MEMORY_COPY(overflow_checks))
    \/ \E overflow_checks \in BOOLEAN : BulkStep(MEMORY_FILL(overflow_checks))
    \/ \E data_idx \in DataIdxs, overflow_checks \in BOOLEAN :
          BulkStep(MEMORY_INIT(data_idx, overflow_checks))
    \/ \E data_idx \in DataIdxs : BulkStep(DATA_DROP(data_idx))
    \/ BulkStep(END)

SpecBulk == InitBulk /\ [][NextBulk]_vars

----------------------------------------------------------------------------
(* Dropped segments: the behaviours of invocations that drop a passive data *)
(* segment and copy from it, before and after                               *)

\* the i32 operands explored: 0, 1 and an address past the one-page memory
DropInputs == { U32(0, 0), U32(0, 1), U32(1, 1) }

InitDrop == InstantiatedModule([min |-> 1, max |-> Some(1)], <<PassiveData>>)

\* a transition of the explored behaviours
DropStep(A) ==
    /\ steps < MaxDropSteps
    /\ A
    /\ Len(values') <= MaxBulkValues
    /\ steps' = steps + 1
    /\ UNCHANGED <<reader, validation>>

NextDrop ==
    \/ \E f \in MemFuncs : DropStep(Invoke(f, <<>>))
    \/ \E c \in DropInputs : DropStep(I32_CONST(c))
    \/ DropStep(DATA_DROP(0))
    \/ \E overflow_checks \in BOOLEAN : DropStep(MEMORY_INIT(0, overflow_checks))
    \/ DropStep(END)

SpecDrop == InitDrop /\ [][NextDrop]_vars

----------------------------------------------------------------------------
(* Globals: the behaviours of invocations that read and write the two       *)
(* globals of the instance                                                  *)

\* the operands explored, one of each type besides zero
GlobalI32Inputs == { U32(0, 0), U32(0, 7) }
GlobalI64Inputs == { U64(0, 0, 0, 9) }

GlobalIdxs == 0..(Len(Globals) - 1)

InitGlobals == InstantiatedModule([min |-> 1, max |-> Some(1)], <<PassiveData>>)

\* a transition of the explored behaviours
GlobalStep(A) ==
    /\ steps < MaxGlobalSteps
    /\ A
    /\ Len(values') <= MaxGlobalValues
    /\ steps' = steps + 1
    /\ UNCHANGED <<reader, validation>>

NextGlobals ==
    \/ \E f \in MemFuncs : GlobalStep(Invoke(f, <<>>))
    \/ \E c \in GlobalI32Inputs : GlobalStep(I32_CONST(c))
    \/ \E c \in GlobalI64Inputs : GlobalStep(I64_CONST(c))
    \/ \E global_idx \in GlobalIdxs : GlobalStep(GLOBAL_GET(global_idx))
    \/ \E global_idx \in GlobalIdxs : GlobalStep(GLOBAL_SET(global_idx))
    \/ GlobalStep(DROP)
    \/ GlobalStep(END)

SpecGlobals == InitGlobals /\ [][NextGlobals]_vars

----------------------------------------------------------------------------
(* Constant expressions: the behaviours of read_constant_expression *)

\* no module has been instantiated
Uninstantiated ==
    /\ mem = None
    /\ store_data = <<>>
    /\ globals = <<>>
    /\ values = <<>>
    /\ frames = <<>>
    /\ pc = 0
    /\ outcome = "idle"
    /\ last = NoLast
    /\ hist = [n |-> 0, sum |-> 0, store |-> None, module |-> <<>>, calls |-> <<>>,
               code |-> {}, before |-> "idle"]
    /\ steps = 0

\* the instructions of the explored expressions
ConstInstrs ==
    { End,
      Instr("global.get", U32(0, 0)),
      Instr("i32.const", U32(0, 0)), Instr("i32.const", U32(1, 0)),
      Instr("i64.const", U64(0, 0, 0, 0)),
      Instr("f32.const", U32(0, 0)), Instr("f64.const", U64(0, 0, 0, 0)),
      Instr("i32.add", None), Instr("i32.sub", None), Instr("i32.mul", None),
      Instr("i64.add", None), Instr("i64.sub", None), Instr("i64.mul", None),
      Instr("ref.null", "funcref"), Instr("ref.func", U32(0, 0)),
      Instr("nop", None), Instr("i32.eqz", None), Instr("local.get", U32(0, 0)) }

\* the explored expressions: up to MaxExpr instructions, with or without end
ConstExprs == UNION { [1..n -> ConstInstrs] : n \in 0..MaxExpr }

InitConstExpr ==
    /\ Uninstantiated
    /\ validation = None
    /\ \E wasm \in ConstExprs : \E cut \in 0..MaxCut :
          /\ cut <= ExprBytes(wasm)
          /\ reader = CutReaderAt(wasm, 0, ExprBytes(wasm) - cut)

\* one iteration of the loop of read_constant_expression
READ_CONSTANT_INSTR ==
    /\ reader.result = <<>>
    /\ reader' = read_constant_instr(reader)
    /\ UNCHANGED <<mem, store_data, globals, values, frames, pc, outcome, last, hist, steps,
                   validation>>

NextConstExpr == READ_CONSTANT_INSTR

SpecConstExpr == InitConstExpr /\ [][NextConstExpr]_vars

----------------------------------------------------------------------------
(* Validation: validate (validation/mod.rs), one step per section handler. *)
(* A module is its eight header bytes and its sections; a section is its    *)
(* type and its decoded contents.                                           *)


\* Limits::read of a declaration [tag, min, max]
Limits_read_unordered(d) ==
    IF d.tag = 0 THEN Ok([min |-> d.min, max |-> None])
    ELSE IF d.tag = 1 THEN Ok([min |-> d.min, max |-> Some(d.max)])
    ELSE ErrOf("InvalidLimitsType", d.tag)

Limits_read(d) ==
    IF d.tag = 0 THEN Ok([min |-> d.min, max |-> None])
    ELSE IF d.tag = 1
    THEN IF d.min > d.max THEN Err("SizeMinIsGreaterThanMax")
         ELSE Ok([min |-> d.min, max |-> Some(d.max)])
    ELSE ErrOf("InvalidLimitsType", d.tag)

\* MemType::read from the bytes: Limits::read, then the ceiling of 2^16 pages
MemType_decode(d) ==
    LET limit == Limits_read(d)
    IN IF IsErr(limit) THEN limit
       ELSE LET ty == MemType_read(limit[2])
            IN IF ty.err # "" THEN Err(ty.err) ELSE Ok([limits |-> ty.limits])

\* TableType::read: a RefType (well-formed), then Limits::read
TableType_read(d) ==
    LET lim == Limits_read(d.lim)
    IN IF IsErr(lim) THEN lim ELSE Ok([et |-> d.et, lim |-> lim[2]])

\* read_vec: the elements read in order, or the first failure
read_vec(rs) ==
    LET failed == {i \in 1..Len(rs) : ~IsOk(rs[i])}
    IN IF failed = {} THEN Ok([i \in 1..Len(rs) |-> rs[i][2]])
       ELSE rs[CHOOSE i \in failed : \A j \in failed : i <= j]

\* run_const on an expression of constants: the stack it leaves at `end`
RECURSIVE run_const(_, _, _)
run_const(wasm, i, stack) ==
    IF i > Len(wasm) \/ wasm[i].op = "end" THEN stack
    ELSE IF wasm[i].op = "i32.const" THEN run_const(wasm, i + 1, Append(stack, I32(wasm[i].imm)))
    ELSE IF wasm[i].op = "i64.const" THEN run_const(wasm, i + 1, Append(stack, I64(wasm[i].imm)))
    ELSE IF wasm[i].op = "i32.add" /\ Len(stack) >= 2
    THEN run_const(wasm, i + 1,
                   Append(ButLast(stack, 2),
                          I32(AddLimbs(Nth(stack, 1).bits, Top(stack).bits))))
    ELSE run_const(wasm, i + 1, stack)

\* Limits::MAX_BYTES, 2^32, as a usize
MAX_BYTES == <<0, 0, 1, 0>>

\* the bytes a memory of type `memory` may grow to (mod.rs 331-335)
max_bytes(memory) ==
    IF memory.limits.max # None /\ memory.limits.max[1] # MAX_PAGES
    THEN <<0, memory.limits.max[1], 0, 0>>
    ELSE MAX_BYTES

\* the closure of the Data section's read_vec on a segment [mode, expr, init]
\* whose offset expression starts at start_pc (mod.rs 290-372): the
\* DataSegment, or a panic
data_sec(seg, start_pc, memories) ==
    IF seg.mode = 0
    THEN LET offset == read_constant_expression(ReaderAt(seg.expr, start_pc)).result
             stack == run_const(seg.expr, 1, <<>>)
             value == Top(stack)
             val == IF value.ty = "I32" THEN value.bits ELSE Truncate(value.bits, 2)
             byte_vec == seg.init
         IN IF IsErr(offset) THEN Panicked
            ELSE IF stack = <<>> THEN Panicked
            ELSE IF value.ty \notin {"I32", "I64"} THEN Panicked
            ELSE IF value.ty = "I64" /\ Lt(<<65535, 65535, 0, 0>>, value.bits) THEN Panicked
            ELSE IF memories = <<>> THEN Panicked
            ELSE IF Lt(max_bytes(memories[1]), Plus(ZeroExtend(val, 4), Len(byte_vec)))
            THEN Panicked
            ELSE Ok(DataSegment(byte_vec, Active(0, offset[2])))
    ELSE IF seg.mode = 1 THEN Ok(DataSegment(seg.init, Passive))
    ELSE Panicked

\* the order in which validate handles the sections
HandlerOrder ==
    <<"Type", "Import", "Function", "Table", "Memory", "Global", "Export", "Start",
      "Element", "DataCount", "Code", "Data">>

\* validate on entry: nothing read. The contents of a section give the
\* positions of its spans in the module without its custom sections; `skipped`
\* counts the bytes of the custom sections the reader went over, which is how
\* far the position of everything after them has moved.
Validating(wasm) ==
    [wasm |-> wasm, stage |-> 0, next |-> 1, header |-> None, result |-> <<>>,
     skipped |-> 0,
     info |-> [types |-> <<>>, imports |-> <<>>, functions |-> <<>>, tables |-> <<>>,
               memories |-> <<>>, globals |-> <<>>, exports |-> <<>>, start |-> None,
               data_count |-> None, func_blocks |-> <<>>, data |-> <<>>]]

\* read_next_header (section ids 0..12 only)
read_next_header(v) ==
    IF v.header = None /\ v.next <= Len(v.wasm.sections)
    THEN [v EXCEPT !.header = Some(v.wasm.sections[v.next]), !.next = @ + 1]
    ELSE v

\* what the handler of a section returns for the header h: Ok with the
\* contents decoded, an error, or a panic
handler(section_ty, h, v) ==
    CASE section_ty = "Table" ->
            read_vec([i \in 1..Len(h.contents) |-> TableType_read(h.contents[i])])
      [] section_ty = "Memory" ->
            read_vec([i \in 1..Len(h.contents) |-> MemType_decode(h.contents[i])])
      [] section_ty = "Start" -> Ok(Some(h.contents))
      [] section_ty = "Element" -> Panicked
      [] section_ty = "DataCount" -> Ok(Some(h.contents))
      [] section_ty = "Data" ->
            read_vec([i \in 1..Len(h.contents) |->
                         data_sec(h.contents[i], 100 + 16 * i + v.skipped,
                                  v.info.memories)])
      [] section_ty = "Code" ->
            Ok([i \in 1..Len(h.contents) |->
                   Span(h.contents[i].from + v.skipped, h.contents[i].len)])
      [] OTHER -> Ok(h.contents)

\* the field of ValidationInfo (or the local) a section's handler fills
FieldOf(section_ty) ==
    CASE section_ty = "Type" -> "types"
      [] section_ty = "Import" -> "imports"
      [] section_ty = "Function" -> "functions"
      [] section_ty = "Table" -> "tables"
      [] section_ty = "Memory" -> "memories"
      [] section_ty = "Global" -> "globals"
      [] section_ty = "Export" -> "exports"
      [] section_ty = "Start" -> "start"
      [] section_ty = "DataCount" -> "data_count"
      [] section_ty = "Code" -> "func_blocks"
      [] section_ty = "Data" -> "data"

\* the bytes of a custom section: its id, its length (one byte of LEB128) and
\* its contents, which wasm.skip(h.contents.len()) goes over
SectionSize(h) == 2 + Len(h.contents)

\* handle_section: when the pending header is of the type asked for, take it,
\* run the handler and read the next header
handle_section(v, section_ty) ==
    IF v.header # None /\ v.header[1].ty = section_ty
    THEN LET h == v.header[1]
             ret == handler(section_ty, h, v)
             taken == [v EXCEPT !.header = None]
         IN IF ~IsOk(ret) THEN [taken EXCEPT !.result = ret]
            ELSE IF section_ty = "Custom"
            THEN read_next_header([taken EXCEPT !.skipped = @ + SectionSize(h)])
            ELSE IF section_ty = "Element" THEN read_next_header(taken)
            ELSE read_next_header(
                    [taken EXCEPT !.info = [@ EXCEPT ![FieldOf(section_ty)] = ret[2]]])
    ELSE v

\* while the pending header is a custom section, skip it; `if` for `while`
skip_sections_once(v) ==
    IF v.header # None /\ v.header[1].ty = "Custom"
    THEN handle_section(v, "Custom")
    ELSE v

\* while (skip_section(..)?).is_some() {}
RECURSIVE skip_sections(_)
skip_sections(v) ==
    IF v.header # None /\ v.header[1].ty = "Custom"
    THEN skip_sections(handle_section(v, "Custom"))
    ELSE v

\* the checks that follow a section's handler, with memories.len() > 2
after_section_two_memories(v, section_ty) ==
    IF v.result # <<>> THEN v
    ELSE IF section_ty = "Memory" /\ Len(v.info.memories) > 2
    THEN [v EXCEPT !.result = Err("MoreThanOneMemory")]
    ELSE IF section_ty = "Code" /\ Len(v.info.func_blocks) # Len(v.info.functions)
    THEN [v EXCEPT !.result = Panicked]
    ELSE v

\* the checks that follow a section's handler, without the assert_eq! on the
\* function bodies
after_section_unasserted(v, section_ty) ==
    IF v.result # <<>> THEN v
    ELSE IF section_ty = "Memory" /\ Len(v.info.memories) > 1
    THEN [v EXCEPT !.result = Err("MoreThanOneMemory")]
    ELSE v

\* the checks that follow a section's handler
after_section(v, section_ty) ==
    IF v.result # <<>> THEN v
    ELSE IF section_ty = "Memory" /\ Len(v.info.memories) > 1
    THEN [v EXCEPT !.result = Err("MoreThanOneMemory")]
    ELSE IF section_ty = "Code" /\ Len(v.info.func_blocks) # Len(v.info.functions)
    THEN [v EXCEPT !.result = Panicked]
    ELSE v

\* WasmReader::strip_bytes::<4>
strip_bytes(bytes, at) ==
    IF at + 4 > Len(bytes) THEN Err("Eof") ELSE Ok(SubSeq(bytes, at + 1, at + 4))

\* the header checks with the version checked first
header_checks_version_first(bytes) ==
    LET magic == strip_bytes(bytes, 0)
        version == strip_bytes(bytes, 4)
    IN IF IsErr(magic) THEN magic
       ELSE IF IsErr(version) THEN version
       ELSE IF version[2] # <<1, 0, 0, 0>> THEN Err("InvalidVersion")
       ELSE IF magic[2] # <<0, 97, 115, 109>> THEN Err("InvalidMagic")
       ELSE Ok(8)

\* the header checks of validate (mod.rs 46-54): the magic, then the version
header_checks(bytes) ==
    LET magic == strip_bytes(bytes, 0)
        version == strip_bytes(bytes, 4)
    IN IF IsErr(magic) THEN magic
       ELSE IF magic[2] # <<0, 97, 115, 109>> THEN Err("InvalidMagic")
       ELSE IF IsErr(version) THEN version
       ELSE IF version[2] # <<1, 0, 0, 0>> THEN Err("InvalidVersion")
       ELSE Ok(8)

\* the variables validate leaves alone
NoInstance ==
    UNCHANGED <<mem, store_data, globals, values, frames, pc, outcome, last, hist, steps, reader>>

\* validate_step returning the ValidationInfo whatever header is left pending
validate_step_ignoring_the_pending_header(v) ==
    IF v.stage = 0
    THEN LET checked == header_checks(v.wasm.bytes)
         IN IF IsErr(checked) THEN [v EXCEPT !.result = checked]
            ELSE [read_next_header(v) EXCEPT !.stage = 1]
    ELSE IF v.stage <= Len(HandlerOrder)
    THEN LET section_ty == HandlerOrder[v.stage]
             skipped == skip_sections(v)
             handled == after_section(handle_section(skipped, section_ty), section_ty)
         IN [handled EXCEPT !.stage = @ + 1]
    ELSE LET skipped == skip_sections(v)
         IN [skipped EXCEPT !.result = Ok(skipped.info)]

\* the next step of validate: the header (mod.rs 42-58); the custom sections
\* before a section, its handler and the checks that follow; the end
\* (mod.rs 383-403): the custom sections left, then the header no handler
\* took, or the ValidationInfo
validate_step(v) ==
    IF v.stage = 0
    THEN LET checked == header_checks(v.wasm.bytes)
         IN IF IsErr(checked) THEN [v EXCEPT !.result = checked]
            ELSE [read_next_header(v) EXCEPT !.stage = 1]
    ELSE IF v.stage <= Len(HandlerOrder)
    THEN LET section_ty == HandlerOrder[v.stage]
             skipped == skip_sections(v)
             handled == after_section(handle_section(skipped, section_ty), section_ty)
         IN [handled EXCEPT !.stage = @ + 1]
    ELSE LET skipped == skip_sections(v)
         IN IF skipped.header # None
            THEN [skipped EXCEPT !.result = ErrOf("SectionOutOfOrder", skipped.header[1].ty)]
            ELSE [skipped EXCEPT !.result = Ok(skipped.info)]

\* validate: the steps taken until it returns or aborts
RECURSIVE validate(_)
validate(v) == IF v.result # <<>> THEN v ELSE validate(validate_step(v))

\* validate, from its entry to the first header
VALIDATE_HEADER ==
    /\ validation.result = <<>>
    /\ validation.stage = 0
    /\ validation' = validate_step(validation)
    /\ NoInstance

\* validate, one section
HANDLE_SECTION(section_ty) ==
    /\ validation.result = <<>>
    /\ validation.stage \in 1..Len(HandlerOrder)
    /\ HandlerOrder[validation.stage] = section_ty
    /\ validation' = validate_step(validation)
    /\ NoInstance

\* validate, the end
VALIDATE_END ==
    /\ validation.result = <<>>
    /\ validation.stage = Len(HandlerOrder) + 1
    /\ validation' = validate_step(validation)
    /\ NoInstance

\* a section: its type and its decoded contents
Section(ty, contents) == [ty |-> ty, contents |-> contents]

\* a limits declaration: the tag byte, min and, with tag 1, max
LimitsDecl(tag, min, max) == [tag |-> tag, min |-> min, max |-> max]

\* the sections explored in every order: one of each type, well-formed
Sections ==
    { Section("Custom", <<>>), Section("Type", <<>>), Section("Import", <<>>),
      Section("Function", <<0>>),
      Section("Table", <<[et |-> "funcref", lim |-> LimitsDecl(0, 1, 0)]>>),
      Section("Memory", <<LimitsDecl(1, 1, 1)>>),
      Section("Global", <<>>), Section("Export", <<>>), Section("Start", 0),
      Section("Element", <<>>), Section("DataCount", 1),
      Section("Code", <<Span(45, 20)>>),
      Section("Data", <<[mode |-> 1, expr |-> <<>>, init |-> PassiveData.init]>>) }

\* the limits explored: at, below and above the ceiling of 2^16 pages
LimitValues == {0, 1, 65535, 65536, 65537, 2147483647}

LimitsDecls ==
    {LimitsDecl(0, min, 0) : min \in LimitValues}
        \cup {LimitsDecl(1, min, max) : min \in LimitValues, max \in LimitValues}
        \cup {LimitsDecl(2, 1, 1)}

\* the data segments explored: offsets inside, at the end of and past a
\* memory of one page, i64 offsets, offset expressions the reader rejects, a
\* passive segment and a segment with an explicit memory index
DataDecls ==
    { [mode |-> 0, expr |-> <<Instr("i32.const", U32(0, 0)), End>>, init |-> DataLow.init],
      [mode |-> 0, expr |-> <<Instr("i32.const", U32(0, 65532)), End>>, init |-> DataLow.init],
      [mode |-> 0, expr |-> <<Instr("i32.const", U32(0, 65533)), End>>, init |-> DataLow.init],
      [mode |-> 0, expr |-> <<Instr("i32.const", U32(65535, 65535)), End>>, init |-> DataLow.init],
      [mode |-> 0, expr |-> <<Instr("i64.const", U64(0, 0, 0, 2)), End>>, init |-> DataLow.init],
      [mode |-> 0, expr |-> <<Instr("i64.const", U64(0, 1, 0, 0)), End>>, init |-> DataLow.init],
      [mode |-> 0, expr |-> <<End>>, init |-> DataLow.init],
      [mode |-> 0, expr |-> <<Instr("nop", None), End>>, init |-> DataLow.init],
      [mode |-> 0, expr |-> <<Instr("f32.const", U32(0, 0)), End>>, init |-> DataLow.init],
      [mode |-> 0, expr |-> <<Instr("i32.const", U32(0, 0))>>, init |-> DataLow.init],
      [mode |-> 1, expr |-> <<>>, init |-> PassiveData.init],
      [mode |-> 2, expr |-> <<Instr("i32.const", U32(0, 0)), End>>, init |-> DataLow.init] }

\* a custom section named "name", with one byte of payload
NameSection == Section("Custom", <<4, 110, 97, 109, 101, 0>>)

\* `sections` with n[i] custom sections put before its i-th section, and
\* n[Len(sections) + 1] after the last
RECURSIVE Customs(_)
Customs(n) == IF n = 0 THEN <<>> ELSE <<NameSection>> \o Customs(n - 1)

RECURSIVE WithCustoms(_, _, _)
WithCustoms(sections, n, i) ==
    IF i > Len(sections) THEN Customs(n[i])
    ELSE Customs(n[i]) \o <<sections[i]>> \o WithCustoms(sections, n, i + 1)

\* the modules custom sections are put into: accepted ones, with a function
\* body and with an active data segment, and rejected ones
CustomBases ==
    { <<Section("Function", <<0>>), Section("Code", <<Span(45, 20)>>)>>,
      <<Section("Memory", <<LimitsDecl(1, 1, 1)>>),
        Section("Data", <<[mode |-> 0, expr |-> <<Instr("i32.const", U32(0, 0)), End>>,
                           init |-> DataLow.init]>>)>>,
      <<Section("Memory", <<LimitsDecl(1, 1, 1), LimitsDecl(0, 1, 0)>>),
        Section("Global", <<>>)>>,
      <<Section("Data", <<[mode |-> 1, expr |-> <<>>, init |-> PassiveData.init]>>),
        Section("Memory", <<LimitsDecl(1, 1, 1)>>)>>,
      <<Section("Type", <<>>), Section("Code", <<Span(45, 20)>>)>> }

GoodHeader == <<0, 97, 115, 109, 1, 0, 0, 0>>

\* the headers explored: the module header, wrong magics, wrong versions (that
\* of a component among them), both wrong, and inputs that end early
Headers ==
    { GoodHeader,
      <<0, 97, 115, 110, 1, 0, 0, 0>>, <<109, 115, 97, 0, 1, 0, 0, 0>>,
      <<0, 97, 115, 109, 13, 0, 1, 0>>, <<0, 97, 115, 109, 2, 0, 0, 0>>,
      <<0, 97, 115, 109, 1, 0, 0, 1>>,
      <<1, 97, 115, 109, 13, 0, 1, 0>>,
      <<>>, <<0, 97, 115>>, <<0, 0, 0, 0>>, <<0, 97, 115, 109>>,
      <<0, 97, 115, 109, 1, 0>> }

Module(bytes, sections) == [bytes |-> bytes, sections |-> sections]

\* the modules explored
Modules ==
    {Module(GoodHeader, sections) :
        sections \in UNION {[1..n -> Sections] : n \in 0..MaxSections}}
    \cup {Module(bytes, <<>>) : bytes \in Headers}
    \cup {Module(bytes, <<Section("Memory", <<LimitsDecl(1, 1, 1)>>)>>) :
            bytes \in {h \in Headers : Len(h) = 8}}
    \cup {Module(GoodHeader, <<Section("Memory", <<d>>)>>) : d \in LimitsDecls}
    \cup {Module(GoodHeader, <<Section("Memory", <<LimitsDecl(1, 1, 1), d>>)>>) :
            d \in {LimitsDecl(0, 1, 0), LimitsDecl(1, 2, 1)}}
    \cup {Module(GoodHeader, <<Section("Table", <<[et |-> "funcref", lim |-> d]>>)>>) :
            d \in LimitsDecls}
    \cup {Module(GoodHeader, <<Section("Memory", <<m>>), Section("Data", <<seg>>)>>) :
            m \in {LimitsDecl(1, 1, 1), LimitsDecl(0, 1, 0), LimitsDecl(1, 1, 65536)},
            seg \in DataDecls}
    \cup {Module(GoodHeader, <<Section("Data", <<seg>>)>>) : seg \in DataDecls}
    \cup {Module(GoodHeader, <<Section("Memory", <<LimitsDecl(1, 1, 1)>>),
                              Section("Data", <<seg1, seg2>>)>>) :
            seg1 \in DataDecls, seg2 \in DataDecls}
    \cup {Module(GoodHeader, <<Section("Memory", ms)>> \o rest) :
            ms \in {<<LimitsDecl(1, 1, 1), LimitsDecl(0, 0, 0)>>,
                    <<LimitsDecl(0, 1, 0), LimitsDecl(0, 1, 0), LimitsDecl(1, 1, 2)>>,
                    <<LimitsDecl(0, 1, 0), LimitsDecl(1, 1, 2), LimitsDecl(1, 65537, 1)>>},
            rest \in {<<>>} \cup {<<Section("Data", <<seg>>)>> : seg \in DataDecls}}
    \cup {Module(GoodHeader, <<Section("Function", fs), Section("Code", cs)>>) :
            fs \in {<<>>, <<0>>, <<0, 0>>},
            cs \in {<<>>, <<Span(45, 20)>>, <<Span(45, 20), Span(66, 8)>>}}
    \cup {Module(GoodHeader, WithCustoms(sections, n, 1)) :
            sections \in CustomBases, n \in [1..3 -> 0..MaxCustoms]}

InitValidate ==
    /\ Uninstantiated
    /\ reader = None
    /\ \E wasm \in Modules : validation = Validating(wasm)

NextValidate ==
    \/ VALIDATE_HEADER
    \/ HANDLE_SECTION("Type")
    \/ HANDLE_SECTION("Import")
    \/ HANDLE_SECTION("Function")
    \/ HANDLE_SECTION("Table")
    \/ HANDLE_SECTION("Memory")
    \/ HANDLE_SECTION("Global")
    \/ HANDLE_SECTION("Export")
    \/ HANDLE_SECTION("Start")
    \/ HANDLE_SECTION("Element")
    \/ HANDLE_SECTION("DataCount")
    \/ HANDLE_SECTION("Code")
    \/ HANDLE_SECTION("Data")
    \/ VALIDATE_END

SpecValidate == InitValidate /\ [][NextValidate]_vars

----------------------------------------------------------------------------
(* Integer division (interpreter_loop.rs 1124-1169, 1215-1276, 1349-1365):  *)
(* Rust's `/`, `%` and checked_rem on i32, u32, i64 and u64                 *)

\* the number 0 and the number 1 of k limbs
ZeroLimbs(k) == [i \in 1..k |-> 0]
OneLimbs(k) == [i \in 1..k |-> IF i = 1 THEN 1 ELSE 0]

\* a number as the tuple of its limbs
Limbs(a) == SubSeq(a, 1, Len(a))

\* wrapping_neg, and the magnitude of a signed number as an unsigned one
wrapping_neg(a) == AddLimbs(Not(a), OneLimbs(Len(a)))
unsigned_abs(a) == IF IsNegative(a) THEN Limbs(wrapping_neg(a)) ELSE a

\* a - b modulo 2^(16 * Len(a))
SubLimbs(a, b) == Limbs(AddLimbs(a, Limbs(wrapping_neg(b))))

\* a shifted left by one bit, bit 0 set to b0
Shl1(a, b0) ==
    Limbs([i \in 1..Len(a) |->
             ((2 * a[i]) % Limb) + (IF i = 1 THEN b0 ELSE a[i - 1] \div 32768)])

\* bit k of a, bit 0 the least significant
BitOf(a, k) == (a[(k \div 16) + 1] \div (2^(k % 16))) % 2

\* a shifted left by n bits
ShlBits(a, n) ==
    LET q == n \div 16
        r == n % 16
    IN Limbs([k \in 1..Len(a) |->
                (IF k > q THEN (a[k - q] * (2^r)) % Limb ELSE 0)
                + (IF k > q + 1 THEN a[k - q - 1] \div (2^(16 - r)) ELSE 0)])

\* the element of a set of one element, which is evaluated before it is used
TheOne(S) == CHOOSE x \in S : TRUE

\* one step of the long division of a by b: bit i of a is brought down to the
\* remainder of the bits above it, and b is subtracted when it fits
DivBit(a, b, i, prev) ==
    LET r1 == Shl1(prev.r, BitOf(a, i))
    IN IF IsNegative(prev.r) \/ ~Lt(r1, b)
       THEN [q |-> Shl1(prev.q, 1), r |-> SubLimbs(r1, b)]
       ELSE [q |-> Shl1(prev.q, 0), r |-> r1]

\* the steps for the bits hi down to lo of a, after `start`: those of the
\* upper half of the bits, then those of the lower half
RECURSIVE DivBits(_, _, _, _, _)
DivBits(a, b, hi, lo, start) ==
    IF hi = lo THEN DivBit(a, b, lo, start)
    ELSE LET mid == (hi + lo + 1) \div 2
         IN TheOne({ DivBits(a, b, mid - 1, lo, upper) :
                        upper \in {DivBits(a, b, hi, mid, start)} })

\* unsigned long division of a by b # 0: the quotient and the remainder
DivFrom(a, b) ==
    DivBits(a, b, 16 * Len(a) - 1, 0,
            [q |-> ZeroLimbs(Len(a)), r |-> ZeroLimbs(Len(a))])

\* `/` and `%` on u32 and u64, for b # 0
unsigned_div(a, b) == DivFrom(a, b).q
unsigned_rem(a, b) == DivFrom(a, b).r

\* iN::MIN
IntMin(k) == [i \in 1..k |-> IF i = k THEN 32768 ELSE 0]

\* `/` on i32 and i64, for b # 0: the quotient truncated toward zero; MIN / -1
\* overflows, which panics
signed_div(a, b) ==
    IF a = IntMin(Len(a)) /\ b = Not(ZeroLimbs(Len(b))) THEN Panicked
    ELSE LET q == unsigned_div(unsigned_abs(a), unsigned_abs(b))
         IN IF IsNegative(a) # IsNegative(b) THEN wrapping_neg(q) ELSE q

\* iN::checked_rem: None for b = 0 and for MIN % -1, else the remainder, which
\* has the sign of a
signed_checked_rem(a, b) ==
    IF b = ZeroLimbs(Len(b)) THEN None
    ELSE IF a = IntMin(Len(a)) /\ b = Not(ZeroLimbs(Len(b))) THEN None
    ELSE LET r == unsigned_rem(unsigned_abs(a), unsigned_abs(b))
         IN Some(IF IsNegative(a) THEN wrapping_neg(r) ELSE r)

\* uN::checked_rem: None for b = 0
unsigned_checked_rem(a, b) ==
    IF b = ZeroLimbs(Len(b)) THEN None ELSE Some(unsigned_rem(a, b))

\* Option::unwrap_or_default on an integer of k limbs
unwrap_or_default(o, k) == IF o = None THEN ZeroLimbs(k) ELSE o[1]

\* a Value of type ty
ValueOf(ty, bits) == [ty |-> ty, bits |-> bits]

\* the shape of the division handlers, with the test for zero made on the
\* operand popped second
DivRem_testing_second(op, ty, result) ==
    LET dividend == Top(values).bits
        divisor == Nth(values, 1).bits
        popped == ButLast(values, 2)
    IN /\ Running
       /\ pc + 1 <= BodyEnd
       /\ HasOperands(<<ty, ty>>)
       /\ IF divisor = ZeroLimbs(Len(divisor))
          THEN Trap("DivideBy0", popped, pc + 1, op, 0)
          ELSE IF IsErr(result)
          THEN Trap(result[2], popped, pc + 1, op, 0)
          ELSE Push(popped, ValueOf(ty, result[2]), pc + 1, op, 0)

\* the shape the division handlers share: `dividend` is popped first and
\* `divisor` second, a zero `dividend` returns Err(DivideBy0), then `result`
\* (a trap or the bits to push) is what the handler goes on with
DivRem(op, ty, result) ==
    LET dividend == Top(values).bits
        divisor == Nth(values, 1).bits
        popped == ButLast(values, 2)
    IN /\ Running
       /\ pc + 1 <= BodyEnd
       /\ HasOperands(<<ty, ty>>)
       /\ IF dividend = ZeroLimbs(Len(dividend))
          THEN Trap("DivideBy0", popped, pc + 1, op, 0)
          ELSE IF IsErr(result)
          THEN Trap(result[2], popped, pc + 1, op, 0)
          ELSE Push(popped, ValueOf(ty, result[2]), pc + 1, op, 0)

\* i32.div_s and i64.div_s after the test for zero: divisor / dividend, unless
\* divisor == MIN && dividend == -1
DivS(divisor, dividend) ==
    IF divisor = IntMin(Len(divisor)) /\ dividend = Not(ZeroLimbs(Len(dividend)))
    THEN Err("UnrepresentableResult")
    ELSE LET res == signed_div(divisor, dividend)
         IN IF res = Panicked THEN Err("panic") ELSE Ok(res)

\* the quotient for the remainder
RemU_as_div(divisor, dividend) == Ok(unsigned_div(divisor, dividend))

\* i32.rem_u (checked_rem, unwrap_or_default) and i64.rem_u (`%`) after the
\* test for zero
RemU(divisor, dividend) ==
    Ok(unwrap_or_default(unsigned_checked_rem(divisor, dividend), Len(divisor)))

I32_DIV_S == DivRem("i32.div_s", "I32", DivS(Nth(values, 1).bits, Top(values).bits))
I32_DIV_U == DivRem("i32.div_u", "I32", Ok(unsigned_div(Nth(values, 1).bits, Top(values).bits)))
I32_REM_S ==
    DivRem("i32.rem_s", "I32",
           Ok(unwrap_or_default(signed_checked_rem(Nth(values, 1).bits, Top(values).bits), 2)))
I32_REM_U == DivRem("i32.rem_u", "I32", RemU(Nth(values, 1).bits, Top(values).bits))
I64_DIV_S == DivRem("i64.div_s", "I64", DivS(Nth(values, 1).bits, Top(values).bits))
I64_DIV_U == DivRem("i64.div_u", "I64", Ok(unsigned_div(Nth(values, 1).bits, Top(values).bits)))
I64_REM_S ==
    DivRem("i64.rem_s", "I64",
           Ok(unwrap_or_default(signed_checked_rem(Nth(values, 1).bits, Top(values).bits), 4)))
I64_REM_U == DivRem("i64.rem_u", "I64", RemU(Nth(values, 1).bits, Top(values).bits))

\* the operands explored: zero, small numbers of both signs, the extremes
\* and numbers that do not fit one limb
I32Operands ==
    { U32(0, 0), U32(0, 1), U32(0, 2), U32(0, 7), U32(1, 0), U32(32767, 65535),
      U32(32768, 0), U32(32768, 1), U32(65535, 65535), U32(65535, 65534),
      U32(65535, 65529) }

I64Operands ==
    { U64(0, 0, 0, 0), U64(0, 0, 0, 1), U64(0, 0, 0, 7), U64(0, 1, 0, 0),
      U64(32767, 65535, 65535, 65535), U64(32768, 0, 0, 0), U64(32768, 0, 0, 1),
      U64(65535, 65535, 65535, 65535), U64(65535, 65535, 65535, 65534),
      U64(65535, 65535, 65535, 65529) }

InitDiv == Instantiated([min |-> 1, max |-> Some(1)], NoData)

\* a transition of the explored divisions
DivStep(A) ==
    /\ steps < MaxDivSteps
    /\ A
    /\ Len(values') <= MaxDivValues
    /\ steps' = steps + 1
    /\ UNCHANGED <<reader, validation>>

NextDiv ==
    \/ DivStep(Invoke(4, <<>>))
    \/ \E c \in I32Operands : DivStep(I32_CONST(c))
    \/ \E c \in I64Operands : DivStep(I64_CONST(c))
    \/ DivStep(I32_DIV_S)
    \/ DivStep(I32_DIV_U)
    \/ DivStep(I32_REM_S)
    \/ DivStep(I32_REM_U)
    \/ DivStep(I64_DIV_S)
    \/ DivStep(I64_DIV_U)
    \/ DivStep(I64_REM_S)
    \/ DivStep(I64_REM_U)

SpecDiv == InitDiv /\ [][NextDiv]_vars

----------------------------------------------------------------------------
(* Truncations of floats to integers (interpreter_loop.rs 1653-1721,        *)
(* 1741-1812, 1916-2043).  A float is its IEEE-754 bit pattern: a sign bit, *)
(* 8 exponent bits and 23 fraction bits in an f32, 11 and 52 in an f64.     *)

ExpBits(v) == IF Len(v) = 2 THEN 8 ELSE 11
FracBits(v) == 16 * Len(v) - 1 - ExpBits(v)
Bias(v) == 2^(ExpBits(v) - 1) - 1

\* the weight of the lowest exponent bit in the top limb
FracTop(v) == 2^(15 - ExpBits(v))

\* the biased exponent, the fraction and the bits without the sign
Exponent(v) == (v[Len(v)] % 32768) \div FracTop(v)
Fraction(v) == Limbs([i \in 1..Len(v) |-> IF i = Len(v) THEN v[i] % FracTop(v) ELSE v[i]])
Magnitude(v) == Limbs([i \in 1..Len(v) |-> IF i = Len(v) THEN v[i] % 32768 ELSE v[i]])

\* value::F32 and value::F64: is_nan, is_infinity, is_negative_infinity
is_nan(v) == Exponent(v) = 2^ExpBits(v) - 1 /\ Fraction(v) # ZeroLimbs(Len(v))
is_infinity(v) == Exponent(v) = 2^ExpBits(v) - 1 /\ Fraction(v) = ZeroLimbs(Len(v))
is_negative_infinity(v) == is_infinity(v) /\ IsNegative(v)

\* `<=` and `>=` on floats: false when either side is NaN, the two zeros equal
FloatLe(a, b) ==
    /\ ~is_nan(a)
    /\ ~is_nan(b)
    /\ IF Magnitude(a) = ZeroLimbs(Len(a)) /\ Magnitude(b) = ZeroLimbs(Len(b)) THEN TRUE
       ELSE IF IsNegative(a) # IsNegative(b) THEN IsNegative(a)
       ELSE IF IsNegative(a) THEN Le(Magnitude(b), Magnitude(a))
       ELSE Le(Magnitude(a), Magnitude(b))
FloatGe(a, b) == FloatLe(b, a)

\* a shifted right by n bits
ShrBits(a, n) ==
    LET q == n \div 16
        r == n % 16
    IN Limbs([k \in 1..Len(a) |->
                (IF k + q <= Len(a) THEN a[k + q] \div (2^r) ELSE 0)
                + (IF k + q + 1 <= Len(a) THEN (a[k + q + 1] % (2^r)) * (2^(16 - r)) ELSE 0)])

\* the significand of a float as a u64: the fraction under the implicit bit,
\* which a subnormal number does not have
Significand(v) ==
    ZeroExtend([i \in 1..Len(v) |->
                  IF i = Len(v) /\ Exponent(v) # 0 THEN Fraction(v)[i] + FracTop(v)
                  ELSE Fraction(v)[i]], 4)

\* the integer part of the magnitude of a float below 2^64, as a u64
IntegerPart(v) ==
    LET shift == Exponent(v) - Bias(v) - FracBits(v)
    IN IF shift >= 0 THEN ShlBits(Limbs(Significand(v)), shift)
       ELSE IF 0 - shift > FracBits(v) THEN ZeroLimbs(4)
       ELSE ShrBits(Limbs(Significand(v)), 0 - shift)

\* the magnitude of v is at least 2^n
AtLeastPow2(v, n) == Exponent(v) - Bias(v) >= n

\* as_u32 and as_u64 (`as` from a float, k limbs wide): NaN is 0, a number
\* out of range is the nearest bound, any other is truncated toward zero
as_unsigned(v, k) ==
    IF is_nan(v) \/ IsNegative(v) THEN ZeroLimbs(k)
    ELSE IF AtLeastPow2(v, 16 * k) THEN Not(ZeroLimbs(k))
    ELSE SubSeq(IntegerPart(v), 1, k)

\* as_i32 and as_i64
as_signed(v, k) ==
    IF is_nan(v) THEN ZeroLimbs(k)
    ELSE IF AtLeastPow2(v, 16 * k - 1)
    THEN IF IsNegative(v) THEN IntMin(k) ELSE Limbs(Not(IntMin(k)))
    ELSE IF IsNegative(v) THEN Limbs(wrapping_neg(SubSeq(IntegerPart(v), 1, k)))
    ELSE SubSeq(IntegerPart(v), 1, k)

\* the shape of the trapping truncations, without the test of the range
Trunc_unchecked_range(op, from, to, lo, hi, res) ==
    LET v == Top(values).bits
        popped == ButLast(values, 1)
    IN /\ Running
       /\ pc + 1 <= BodyEnd
       /\ HasOperands(<<from>>)
       /\ IF is_infinity(v)
          THEN Trap("UnrepresentableResult", popped, pc + 1, op, 0)
          ELSE IF is_nan(v)
          THEN Trap("BadConversionToInteger", popped, pc + 1, op, 0)
          ELSE Push(popped, ValueOf(to, res), pc + 1, op, 0)

\* the shape of the eight trapping truncations: the operand is popped, an
\* infinity, a NaN and a number at or beyond a bound return an error, any
\* other number is converted and pushed
Trunc(op, from, to, lo, hi, res) ==
    LET v == Top(values).bits
        popped == ButLast(values, 1)
    IN /\ Running
       /\ pc + 1 <= BodyEnd
       /\ HasOperands(<<from>>)
       /\ IF is_infinity(v)
          THEN Trap("UnrepresentableResult", popped, pc + 1, op, 0)
          ELSE IF is_nan(v)
          THEN Trap("BadConversionToInteger", popped, pc + 1, op, 0)
          ELSE IF FloatGe(v, hi) \/ FloatLe(v, lo)
          THEN Trap("UnrepresentableResult", popped, pc + 1, op, 0)
          ELSE Push(popped, ValueOf(to, res), pc + 1, op, 0)

\* the bounds are the float literals of the source, as bit patterns:
\* f32 2147483648.0 = 0x4F000000, -2147483904.0 = 0xCF000001,
\*     4294967296.0 = 0x4F800000, -1.0 = 0xBF800000,
\*     9223372036854775808.0 = 0x5F000000, -9223373136366403584.0 = 0xDF000001,
\*     18446744073709551616.0 = 0x5F800000
\* f64 2147483648.0 = 0x41E0000000000000, -2147483649.0 = 0xC1E0000000200000,
\*     4294967296.0 = 0x41F0000000000000, -1.0 = 0xBFF0000000000000,
\*     9223372036854775808.0 = 0x43E0000000000000,
\*     -9223372036854777856.0 = 0xC3E0000000000001,
\*     18446744073709551616.0 = 0x43F0000000000000
I32_TRUNC_F32_S ==
    Trunc("i32.trunc_f32_s", "F32", "I32", U32(52992, 1), U32(20224, 0),
          as_signed(Top(values).bits, 2))
I32_TRUNC_F32_U ==
    Trunc("i32.trunc_f32_u", "F32", "I32", U32(49024, 0), U32(20352, 0),
          as_unsigned(Top(values).bits, 2))
I32_TRUNC_F64_S ==
    Trunc("i32.trunc_f64_s", "F64", "I32", U64(49632, 0, 32, 0), U64(16864, 0, 0, 0),
          as_signed(Top(values).bits, 2))
I32_TRUNC_F64_U ==
    Trunc("i32.trunc_f64_u", "F64", "I32", U64(49136, 0, 0, 0), U64(16880, 0, 0, 0),
          as_unsigned(Top(values).bits, 2))
I64_TRUNC_F32_S ==
    Trunc("i64.trunc_f32_s", "F32", "I64", U32(57088, 1), U32(24320, 0),
          as_signed(Top(values).bits, 4))
I64_TRUNC_F32_U ==
    Trunc("i64.trunc_f32_u", "F32", "I64", U32(49024, 0), U32(24448, 0),
          as_unsigned(Top(values).bits, 4))
I64_TRUNC_F64_S ==
    Trunc("i64.trunc_f64_s", "F64", "I64", U64(50144, 0, 0, 1), U64(17376, 0, 0, 0),
          as_signed(Top(values).bits, 4))
I64_TRUNC_F64_U ==
    Trunc("i64.trunc_f64_u", "F64", "I64", U64(49136, 0, 0, 0), U64(17392, 0, 0, 0),
          as_unsigned(Top(values).bits, 4))

\* the result of a signed saturating truncation to k limbs
SatS(v1, k) ==
    IF is_nan(v1) THEN ZeroLimbs(k)
    ELSE IF is_negative_infinity(v1) THEN IntMin(k)
    ELSE IF is_infinity(v1) THEN Limbs(Not(IntMin(k)))
    ELSE as_signed(v1, k)

\* the unsigned one, with the signed result
SatU_as_signed(v1, k) == SatS(v1, k)

\* the result of an unsigned saturating truncation to k limbs
SatU(v1, k) ==
    IF is_nan(v1) \/ is_negative_infinity(v1) THEN ZeroLimbs(k)
    ELSE IF is_infinity(v1) THEN Limbs(Not(ZeroLimbs(k)))
    ELSE as_unsigned(v1, k)

\* the shape of the eight saturating truncations, which follow the prefix
\* byte 0xFC: the operand is popped and the result pushed
TruncSat(op, from, to, res) ==
    /\ Running
    /\ pc + 2 <= BodyEnd
    /\ HasOperands(<<from>>)
    /\ Push(ButLast(values, 1), ValueOf(to, res), pc + 2, op, 0)

I32_TRUNC_SAT_F32_S == TruncSat("i32.trunc_sat_f32_s", "F32", "I32", SatS(Top(values).bits, 2))
I32_TRUNC_SAT_F32_U == TruncSat("i32.trunc_sat_f32_u", "F32", "I32", SatU(Top(values).bits, 2))
I32_TRUNC_SAT_F64_S == TruncSat("i32.trunc_sat_f64_s", "F64", "I32", SatS(Top(values).bits, 2))
I32_TRUNC_SAT_F64_U == TruncSat("i32.trunc_sat_f64_u", "F64", "I32", SatU(Top(values).bits, 2))
I64_TRUNC_SAT_F32_S == TruncSat("i64.trunc_sat_f32_s", "F32", "I64", SatS(Top(values).bits, 4))
I64_TRUNC_SAT_F32_U == TruncSat("i64.trunc_sat_f32_u", "F32", "I64", SatU(Top(values).bits, 4))
I64_TRUNC_SAT_F64_S == TruncSat("i64.trunc_sat_f64_s", "F64", "I64", SatS(Top(values).bits, 4))
I64_TRUNC_SAT_F64_U == TruncSat("i64.trunc_sat_f64_u", "F64", "I64", SatU(Top(values).bits, 4))

\* the operands explored: NaNs, the infinities, the zeros, fractions, and the
\* numbers at and next to each bound of the four integer types
F32Operands ==
    { U32(32704, 0),      \* NaN
      U32(65472, 1),      \* a negative NaN with a payload
      U32(32640, 0),      \* +inf
      U32(65408, 0),      \* -inf
      U32(0, 0),          \* 0.0
      U32(32768, 0),      \* -0.0
      U32(0, 1),          \* the least subnormal number
      U32(16320, 0),      \* 1.5
      U32(49088, 0),      \* -1.5
      U32(49024, 0),      \* -1.0
      U32(48896, 0),      \* -0.5
      U32(20223, 65535),  \* 2147483520.0
      U32(20224, 0),      \* 2147483648.0
      U32(52992, 0),      \* -2147483648.0
      U32(52992, 1),      \* -2147483904.0
      U32(20351, 65535),  \* 4294967040.0
      U32(20352, 0),      \* 4294967296.0
      U32(24319, 65535),  \* 9223371487098961920.0
      U32(24320, 0),      \* 9223372036854775808.0
      U32(57088, 0),      \* -9223372036854775808.0
      U32(57088, 1),      \* -9223373136366403584.0
      U32(24447, 65535),  \* 18446742974197923840.0
      U32(24448, 0),      \* 18446744073709551616.0
      U32(32639, 65535) } \* f32::MAX

F64Operands ==
    { U64(32760, 0, 0, 0),              \* NaN
      U64(65520, 0, 0, 1),              \* a negative NaN with a payload
      U64(32752, 0, 0, 0),              \* +inf
      U64(65520, 0, 0, 0),              \* -inf
      U64(0, 0, 0, 0),                  \* 0.0
      U64(32768, 0, 0, 0),              \* -0.0
      U64(16376, 0, 0, 0),              \* 1.5
      U64(49144, 0, 0, 0),              \* -1.5
      U64(49136, 0, 0, 0),              \* -1.0
      U64(49120, 0, 0, 0),              \* -0.5
      U64(16863, 65535, 65504, 0),      \* 2147483647.5
      U64(16864, 0, 0, 0),              \* 2147483648.0
      U64(49632, 0, 16, 0),             \* -2147483648.5
      U64(49632, 0, 32, 0),             \* -2147483649.0
      U64(16879, 65535, 65520, 0),      \* 4294967295.5
      U64(16880, 0, 0, 0),              \* 4294967296.0
      U64(17375, 65535, 65535, 65535),  \* 9223372036854774784.0
      U64(17376, 0, 0, 0),              \* 9223372036854775808.0
      U64(50144, 0, 0, 0),              \* -9223372036854775808.0
      U64(50144, 0, 0, 1),              \* -9223372036854777856.0
      U64(17391, 65535, 65535, 65535),  \* 18446744073709549568.0
      U64(17392, 0, 0, 0),              \* 18446744073709551616.0
      U64(32751, 65535, 65535, 65535) } \* f64::MAX

\* a transition of the explored truncations
TruncStep(A) ==
    /\ steps < MaxTruncSteps
    /\ A
    /\ Len(values') <= MaxTruncValues
    /\ steps' = steps + 1
    /\ UNCHANGED <<reader, validation>>

NextTrunc ==
    \/ TruncStep(Invoke(4, <<>>))
    \/ \E c \in F32Operands : TruncStep(F32_CONST(c))
    \/ \E c \in F64Operands : TruncStep(F64_CONST(c))
    \/ TruncStep(I32_TRUNC_F32_S)
    \/ TruncStep(I32_TRUNC_F32_U)
    \/ TruncStep(I32_TRUNC_F64_S)
    \/ TruncStep(I32_TRUNC_F64_U)
    \/ TruncStep(I64_TRUNC_F32_S)
    \/ TruncStep(I64_TRUNC_F32_U)
    \/ TruncStep(I64_TRUNC_F64_S)
    \/ TruncStep(I64_TRUNC_F64_U)
    \/ TruncStep(I32_TRUNC_SAT_F32_S)
    \/ TruncStep(I32_TRUNC_SAT_F32_U)
    \/ TruncStep(I32_TRUNC_SAT_F64_S)
    \/ TruncStep(I32_TRUNC_SAT_F64_U)
    \/ TruncStep(I64_TRUNC_SAT_F32_S)
    \/ TruncStep(I64_TRUNC_SAT_F32_U)
    \/ TruncStep(I64_TRUNC_SAT_F64_S)
    \/ TruncStep(I64_TRUNC_SAT_F64_U)

SpecTrunc == InitDiv /\ [][NextTrunc]_vars

----------------------------------------------------------------------------
(* Shifts and rotations (interpreter_loop.rs 1304-1348, 1390-1433).  The    *)
(* count of the integer methods is a u32, two limbs.                        *)

\* the width in bits of an integer of Len(x) limbs
BITS(x) == 16 * Len(x)

\* {integer}::wrapping_shl(rhs): self << (rhs & (BITS - 1))
wrapping_shl(x, rhs) == ShlBits(x, rhs[1] % BITS(x))

\* {unsigned}::wrapping_shr(rhs): self >> (rhs & (BITS - 1)), zeros coming in
unsigned_wrapping_shr(x, rhs) == ShrBits(x, rhs[1] % BITS(x))

\* {signed}::wrapping_shr(rhs): self >> (rhs & (BITS - 1)), copies of the sign
\* bit coming in
wrapping_shr(x, rhs) ==
    IF IsNegative(x)
    THEN Limbs(Not(ShrBits(Limbs(Not(x)), rhs[1] % BITS(x))))
    ELSE ShrBits(x, rhs[1] % BITS(x))

\* the union of two bit patterns that have no bit in common
BitOr(a, b) == [i \in 1..Len(a) |-> a[i] + b[i]]

\* {integer}::rotate_left(n): the bits that leave at the top come in at the bottom
rotate_left(x, n) ==
    LET k == n[1] % BITS(x)
    IN IF k = 0 THEN x ELSE BitOr(ShlBits(x, k), ShrBits(x, BITS(x) - k))

\* {integer}::rotate_right(n)
rotate_right(x, n) ==
    LET k == n[1] % BITS(x)
    IN IF k = 0 THEN x ELSE BitOr(ShrBits(x, k), ShlBits(x, BITS(x) - k))

\* `v as u32` of an i32, and `(v & 63) as u32` of an i64
as_u32(v) == v
and_63_as_u32(v) == <<v[1] % 64, 0>>

\* `res` of each handler, from the value shifted and the count as popped
ShiftResult(op, v, count) ==
    CASE op = "i32.shl" -> wrapping_shl(v, as_u32(count))
      [] op = "i32.shr_s" -> wrapping_shr(v, as_u32(count))
      [] op = "i32.shr_u" -> unsigned_wrapping_shr(v, as_u32(count))
      [] op = "i32.rotl" -> rotate_left(v, as_u32(count))
      [] op = "i32.rotr" -> rotate_right(v, as_u32(count))
      [] op = "i64.shl" -> wrapping_shl(v, and_63_as_u32(count))
      [] op = "i64.shr_s" -> wrapping_shr(v, and_63_as_u32(count))
      [] op = "i64.shr_u" -> unsigned_wrapping_shr(v, and_63_as_u32(count))
      [] op = "i64.rotl" -> rotate_left(v, and_63_as_u32(count))
      [] op = "i64.rotr" -> rotate_right(v, and_63_as_u32(count))

\* the same shape, shifting the operand on top by the one under it
Shift_swapping_the_operands(op, ty) ==
    /\ Running
    /\ pc + 1 <= BodyEnd
    /\ HasOperands(<<ty, ty>>)
    /\ Push(ButLast(values, 2),
            ValueOf(ty, ShiftResult(op, Top(values).bits, Nth(values, 1).bits)),
            pc + 1, op, 0)

\* the shape the ten handlers share: the count is popped first and the value
\* shifted second (v1 then v2 in the i32 handlers, v2 then v1 in the i64 ones)
Shift(op, ty) ==
    /\ Running
    /\ pc + 1 <= BodyEnd
    /\ HasOperands(<<ty, ty>>)
    /\ Push(ButLast(values, 2),
            ValueOf(ty, ShiftResult(op, Nth(values, 1).bits, Top(values).bits)),
            pc + 1, op, 0)

I32_SHL == Shift("i32.shl", "I32")
I32_SHR_S == Shift("i32.shr_s", "I32")
I32_SHR_U == Shift("i32.shr_u", "I32")
I32_ROTL == Shift("i32.rotl", "I32")
I32_ROTR == Shift("i32.rotr", "I32")
I64_SHL == Shift("i64.shl", "I64")
I64_SHR_S == Shift("i64.shr_s", "I64")
I64_SHR_U == Shift("i64.shr_u", "I64")
I64_ROTL == Shift("i64.rotl", "I64")
I64_ROTR == Shift("i64.rotr", "I64")

\* the operands explored, as values shifted and as counts: 0, 1, 4, the width
\* less one, the width and more, counts with bits above the low limb, -1, and
\* patterns with the top bit set and clear
I32ShiftOperands ==
    { U32(0, 0), U32(0, 1), U32(0, 4), U32(0, 31), U32(0, 32), U32(0, 33),
      U32(0, 36), U32(1, 4), U32(65535, 65535), U32(32768, 1), U32(13398, 52719) }

I64ShiftOperands ==
    { U64(0, 0, 0, 0), U64(0, 0, 0, 1), U64(0, 0, 0, 20), U64(0, 0, 0, 63),
      U64(0, 0, 0, 64), U64(0, 0, 0, 65), U64(0, 0, 0, 84), U64(1, 0, 0, 20),
      U64(65535, 65535, 65535, 65535), U64(32768, 0, 0, 1),
      U64(1893, 17185, 46166, 52719) }

\* a transition of the explored shifts
ShiftStep(A) ==
    /\ steps < MaxShiftSteps
    /\ A
    /\ Len(values') <= MaxShiftValues
    /\ steps' = steps + 1
    /\ UNCHANGED <<reader, validation>>

NextShift ==
    \/ ShiftStep(Invoke(4, <<>>))
    \/ \E c \in I32ShiftOperands : ShiftStep(I32_CONST(c))
    \/ \E c \in I64ShiftOperands : ShiftStep(I64_CONST(c))
    \/ ShiftStep(I32_SHL)
    \/ ShiftStep(I32_SHR_S)
    \/ ShiftStep(I32_SHR_U)
    \/ ShiftStep(I32_ROTL)
    \/ ShiftStep(I32_ROTR)
    \/ ShiftStep(I64_SHL)
    \/ ShiftStep(I64_SHR_S)
    \/ ShiftStep(I64_SHR_U)
    \/ ShiftStep(I64_ROTL)
    \/ ShiftStep(I64_ROTR)

SpecShift == InitDiv /\ [][NextShift]_vars

----------------------------------------------------------------------------
(* Whole invocations: modules whose function bodies are fixed instruction   *)
(* sequences, which the loop of run() (interpreter_loop.rs 54-2279) fetches *)
(* at wasm.pc and dispatches to the handlers above.                         *)

Const(c) == Instr("i32.const", c)
LocalGet(i) == Instr("local.get", i)
Call(f) == Instr("call", f)
Drop == Instr("drop", None)
Return == Instr("return", None)
Op(op) == Instr(op, None)

\* the memarg of the explored loads and stores
ZeroMemArg == [align |-> U32(0, 0), offset |-> U32(0, 0)]

\* the number of bytes of an instruction: the opcode and its immediates
InstrLen(i) ==
    CASE i.op = "i32.const" -> 1 + SLebLen(i.imm)
      [] i.op \in {"call", "local.get", "global.get", "global.set"} ->
            1 + ULebLen(NatToLimbs(i.imm, 2))
      [] i.op \in {"i32.load", "i32.store"} ->
            1 + ULebLen(i.imm.align) + ULebLen(i.imm.offset)
      [] i.op = "data.drop" -> 2 + ULebLen(NatToLimbs(i.imm, 2))
      [] i.op = "memory.init" -> 2 + ULebLen(NatToLimbs(i.imm, 2)) + 1
      [] OTHER -> 1

\* the position of instruction k of a body that starts at `from`
RECURSIVE StartOf(_, _, _)
StartOf(body, from, k) ==
    IF k = 1 THEN from ELSE StartOf(body, from, k - 1) + InstrLen(body[k - 1])

\* the code of a module: the instructions of its bodies with their positions
Code(bodies) ==
    UNION { { <<StartOf(bodies[f + 1], func_inst(f).code_expr.from, k), bodies[f + 1][k]>> :
                k \in 1..Len(bodies[f + 1]) } : f \in FuncIdx }

\* a body fills the code span of its function and ends with `end`
Fits(bodies) ==
    \A f \in FuncIdx :
        /\ bodies[f + 1][Len(bodies[f + 1])] = End
        /\ StartOf(bodies[f + 1], func_inst(f).code_expr.from, Len(bodies[f + 1]) + 1)
              = func_inst(f).code_expr.from + func_inst(f).code_expr.len

\* the functions a body calls
Callees(body) == { body[k].imm : k \in { j \in 1..Len(body) : body[j].op = "call" } }

\* the call graph is acyclic: every function calls functions of higher index only
Acyclic(bodies) == \A f \in FuncIdx : \A g \in Callees(bodies[f + 1]) : g > f

\* the most frames an invocation of f needs
RECURSIVE CallDepth(_, _)
CallDepth(bodies, f) ==
    LET deeper == { CallDepth(bodies, g) : g \in Callees(bodies[f + 1]) }
    IN 1 + (IF deeper = {} THEN 0 ELSE CHOOSE d \in deeper : \A e \in deeper : e <= d)

\* the bodies explored of the functions 0 to 3, which compute and call
Twice == <<Call(1), Drop, Call(1), Drop, Return, Return, End>>
Bodies0 ==
    { Twice,
      <<Const(U32(0, 1)), Const(U32(0, 2)), Call(3), Drop, Drop, End>>,
      <<Call(1), Call(2), Drop, Call(4), Return, End>> }
ByZero == <<Const(U32(0, 5)), Const(U32(0, 0)), Op("i32.div_u"), Return, End>>
Bodies1 ==
    { <<Const(U32(0, 7)), Call(2), Call(2), End>>,
      <<Const(U32(0, 0)), Call(2), Call(2), End>>,
      ByZero,
      <<Const(U32(0, 1000)), Call(2), Return, End>> }
Ratio == <<LocalGet(0), LocalGet(0), Op("i32.div_u"), End>>
Bodies2 ==
    { Ratio,
      <<LocalGet(0), Return, LocalGet(1), End>>,
      <<Const(U32(0, 7)), LocalGet(0), Op("i32.rem_s"), End>> }
Pair == <<LocalGet(0), LocalGet(1), End>>
Bodies3 ==
    { Pair,
      <<LocalGet(1), LocalGet(0), End>> }

\* a body that reads the memory, a global and a data segment
Reader ==
    <<Const(U32(0, 0)), Instr("i32.load", ZeroMemArg), Drop,
      Instr("global.get", 0), Drop,
      Const(U32(0, 0)), Const(U32(0, 0)), Const(U32(0, 1)), Instr("memory.init", 0),
      End>>

\* the bodies explored of the functions 4 and 5, which write and trap
Bodies4 ==
    { Reader,
      <<Const(U32(0, 0)), Const(U32(0, 7)), Instr("i32.store", ZeroMemArg),
        Const(U32(0, 7)), Instr("global.set", 0),
        Const(U32(65535, 65535)), Instr("i32.load", ZeroMemArg), Drop,
        Return, Return, End>>,
      <<Instr("data.drop", 0), Const(U32(0, 1)), Const(U32(0, 0)), Op("i32.div_s"), Drop,
        Const(U32(0, 1000)), Drop, Const(U32(0, 1000)), Drop, Return, Return, End>> }
\* a body that writes the memory, a global and a data segment, and then divides
\* by zero
Writer ==
    <<Const(U32(0, 0)), Const(U32(0, 7)), Instr("i32.store", ZeroMemArg),
      Const(U32(0, 7)), Instr("global.set", 0), Instr("data.drop", 0),
      Const(U32(0, 0)), Const(U32(0, 0)), Op("i32.div_u"), End>>

Bodies5 ==
    { Writer,
      <<Const(U32(0, 0)), Instr("i32.load", ZeroMemArg), Drop, Instr("global.get", 0),
        Const(U32(0, 1000)), Drop, Const(U32(0, 1000)), Drop, Return, Return, Return,
        End>> }

\* the modules explored: validated, with an acyclic call graph, no deeper than
\* the frames explored; the bodies of the functions 0 to 3 vary, or those of
\* the functions 4 and 5
Programs ==
    { bodies \in { <<b0, b1, b2, b3, Reader, Writer>> :
                      b0 \in Bodies0, b1 \in Bodies1, b2 \in Bodies2, b3 \in Bodies3 }
                 \cup { <<Twice, ByZero, Ratio, Pair, b4, b5>> :
                          b4 \in Bodies4, b5 \in Bodies5 } :
        /\ Fits(bodies)
        /\ Acyclic(bodies)
        /\ \A f \in FuncIdx : CallDepth(bodies, f) <= MaxFrames }

InitRun ==
    \E bodies \in Programs :
        InstantiatedProgram([min |-> 1, max |-> Some(1)], <<PassiveData>>, Code(bodies))

\* the arguments of the explored invocations
RunInputs == { U32(0, 0), U32(0, 2) }
RunArgs(func_idx) ==
    LET n == Len(func_ty(func_idx).params)
    IN { [i \in 1..n |-> I32(f[i])] : f \in [1..n -> RunInputs] }

\* the constants of the explored bodies
RunConsts ==
    { U32(0, 0), U32(0, 1), U32(0, 2), U32(0, 5), U32(0, 7), U32(0, 1000),
      U32(65535, 65535) }

\* the instruction at wasm.pc is i
Fetch(i) == <<pc, i>> \in hist.code

RunStep(A) == A /\ UNCHANGED <<steps, reader, validation>>

\* one iteration of the loop of run(): the instruction at wasm.pc is executed
Execute ==
    \/ \E c \in RunConsts : RunStep(Fetch(Const(c)) /\ I32_CONST(c))
    \/ \E i \in 0..1 : RunStep(Fetch(LocalGet(i)) /\ LOCAL_GET(i))
    \/ RunStep(Fetch(Instr("global.get", 0)) /\ GLOBAL_GET(0))
    \/ RunStep(Fetch(Instr("global.set", 0)) /\ GLOBAL_SET(0))
    \/ RunStep(Fetch(Drop) /\ DROP)
    \/ \E f \in FuncIdx : RunStep(Fetch(Call(f)) /\ CALL(f))
    \/ RunStep(Fetch(End) /\ END)
    \/ RunStep(Fetch(Return) /\ RETURN)
    \/ RunStep(Fetch(Op("i32.div_s")) /\ I32_DIV_S)
    \/ RunStep(Fetch(Op("i32.div_u")) /\ I32_DIV_U)
    \/ RunStep(Fetch(Op("i32.rem_s")) /\ I32_REM_S)
    \/ RunStep(Fetch(Instr("i32.load", ZeroMemArg)) /\ I32_LOAD(ZeroMemArg))
    \/ RunStep(Fetch(Instr("i32.store", ZeroMemArg)) /\ I32_STORE(ZeroMemArg))
    \/ RunStep(Fetch(Instr("data.drop", 0)) /\ DATA_DROP(0))
    \/ \E overflow_checks \in BOOLEAN :
          RunStep(Fetch(Instr("memory.init", 0)) /\ MEMORY_INIT(0, overflow_checks))

NextRun ==
    \/ \E f \in FuncIdx : \E args \in RunArgs(f) : RunStep(Invoke(f, args))
    \/ Execute

\* the loop of run() goes on as long as there is an instruction to execute
SpecRun == InitRun /\ [][NextRun]_vars /\ WF_vars(Execute)

----------------------------------------------------------------------------
(* The type decoders (core/reader/types/mod.rs) on a reader over raw bytes. *)

\* WasmReader::peek_u8: the byte at pc, not consumed
peek_u8(w) == IF w.pc < Len(w.wasm) THEN Ok(w.wasm[w.pc + 1]) ELSE Err("Eof")

\* WasmReader::read_u8, its result dropped (let _ = wasm.read_u8())
read_u8(w) == IF w.pc < Len(w.wasm) THEN [w EXCEPT !.pc = @ + 1] ELSE w

\* what a read leaves: the reader and the value returned
Read(w, ret) == [wasm |-> w, ret |-> ret]

\* NumType::read
NumType_read(w) ==
    LET b == peek_u8(w)
    IN IF IsErr(b) THEN Read(w, b)
       ELSE IF b[2] = 127 THEN Read(read_u8(w), Ok("I32"))
       ELSE IF b[2] = 126 THEN Read(read_u8(w), Ok("I64"))
       ELSE IF b[2] = 125 THEN Read(read_u8(w), Ok("F32"))
       ELSE IF b[2] = 124 THEN Read(read_u8(w), Ok("F64"))
       ELSE Read(w, Err("InvalidNumType"))

\* VecType::read
VecType_read(w) ==
    LET b == peek_u8(w)
    IN IF IsErr(b) THEN Read(w, b)
       ELSE IF b[2] = 123 THEN Read(read_u8(w), Ok("VecType"))
       ELSE Read(w, Err("InvalidVecType"))

\* RefType::read
RefType_read(w) ==
    LET b == peek_u8(w)
    IN IF IsErr(b) THEN Read(w, b)
       ELSE IF b[2] = 112 THEN Read(read_u8(w), Ok("FuncRef"))
       ELSE IF b[2] = 111 THEN Read(read_u8(w), Ok("ExternRef"))
       ELSE Read(w, Err("InvalidRefType"))

\* ValType::read: the three reads are made one after the other on the same
\* reader, whatever the earlier ones returned; then the first Ok is kept
ValType_read(w) ==
    LET numtype == NumType_read(w)
        vectype == VecType_read(numtype.wasm)
        reftype == RefType_read(vectype.wasm)
    IN Read(reftype.wasm,
            IF IsOk(numtype.ret) THEN numtype.ret
            ELSE IF IsOk(vectype.ret) THEN vectype.ret
            ELSE IF IsOk(reftype.ret) THEN reftype.ret
            ELSE Err("InvalidValType"))

\* a reader over raw bytes, and the reads made on it so far
ByteReader(bytes) == [wasm |-> bytes, pc |-> 0, reads |-> <<>>]

\* the reader after a read of type ty that returned `read`
AfterRead(r, ty, read) ==
    [read.wasm EXCEPT
        !.reads = Append(@, [ty |-> ty, from |-> r.pc, to |-> read.wasm.pc,
                             ret |-> read.ret])]

\* reads go on until one fails
CanRead ==
    /\ Len(reader.reads) < MaxReads
    /\ \A i \in 1..Len(reader.reads) : IsOk(reader.reads[i].ret)
    /\ UNCHANGED <<mem, store_data, globals, values, frames, pc, outcome, last, hist, steps,
                   validation>>

VALTYPE_READ == CanRead /\ reader' = AfterRead(reader, "ValType", ValType_read(reader))
NUMTYPE_READ == CanRead /\ reader' = AfterRead(reader, "NumType", NumType_read(reader))
REFTYPE_READ == CanRead /\ reader' = AfterRead(reader, "RefType", RefType_read(reader))

\* the bytes explored: the number, vector and reference types and a byte that
\* is none of them (0x40)
TypeBytes == {127, 124, 123, 112, 111, 64}

InitTypes ==
    /\ Uninstantiated
    /\ validation = None
    /\ \E bytes \in UNION {[1..n -> TypeBytes] : n \in 0..MaxTypeBytes} :
          reader = ByteReader(bytes)

NextTypes ==
    \/ VALTYPE_READ
    \/ NUMTYPE_READ
    \/ REFTYPE_READ

SpecTypes == InitTypes /\ [][NextTypes]_vars

----------------------------------------------------------------------------
(* Claims *)

\* the stack, the frames, the reader and the invocation after an instruction
ControlState == [frames |-> frames, values |-> values, pc |-> pc, outcome |-> outcome]

\* C1: executing `return` leaves the value stack, the call-frame stack and the
\* program counter exactly as `end` at the outermost block of the function would,
\* whether the function was called from another function or is the outermost
\* frame of the invocation (the same number of call frames remains).
C1_ReturnUnwindsAsEnd ==
    last.op = "return" => ControlState = EndEffect(last.frames, last.values, last.pc)

\* the part of C1 that the code keeps: a `return` in a called function
C1_NestedReturnUnwindsAsEnd ==
    (last.op = "return" /\ callframe_count(last.frames) > 1)
        => ControlState = EndEffect(last.frames, last.values, last.pc)

\* a `return` in a called function, with more values on the stack than the results
C1_NestedReturnReached ==
    /\ last.op = "return"
    /\ callframe_count(last.frames) > 1
    /\ Len(last.values) - current_stackframe(last.frames).value_stack_base
         > current_stackframe(last.frames).return_arity

----------------------------------------------------------------------------
(* Claims about memory.size and memory.grow, under SpecGrow *)

\* the limit K of the memory: its configured maximum, 65536 when none
LimitK == IF mem.ty.limits.max = None THEN 65536 ELSE mem.ty.limits.max[1]

\* the pages of a vector of bytes: |data| / 65536
PagesOf(data) == data.len[2] + 65536 * data.len[3]

\* the delta popped by the memory.grow executed last
GrowDelta == Top(last.values).bits

\* -1 as an i32 value
MinusOneValue == I32(<<65535, 65535>>)

\* C3: for a memory whose configured maximum is K pages (65536 when the module
\* declares none), after any sequence of memory.grow with arbitrary i32 deltas,
\* successful or failing, the page count |data| / 65536 is at most K.
C3_PagesWithinLimit == PagesOf(mem.data) <= LimitK

\* a memory grown up to its limit K refuses a further positive delta
C3_GrownToLimitReached ==
    /\ last.op = "memory.grow"
    /\ hist.n > 0
    /\ PagesOf(mem.data) = LimitK
    /\ ~IsNegative(GrowDelta) /\ ToNat(GrowDelta) > 0
    /\ Top(values) = MinusOneValue

\* C4: memory.grow with popped delta d on a memory of s pages and limit K: if
\* d < 0 as a signed i32 or s + d > K it pushes -1 and leaves the memory's length
\* and contents unchanged; otherwise it pushes the previous size s and the memory
\* becomes exactly s + d pages.
C4_GrowPushesAndExtends ==
    last.op = "memory.grow" =>
        LET s == PagesOf(last.data)
        IN IF IsNegative(GrowDelta) \/ ToNat(GrowDelta) > LimitK - s
           THEN /\ Top(values) = MinusOneValue
                /\ mem.data = last.data
           ELSE /\ Top(values) = I32(<<s % 65536, s \div 65536>>)
                /\ PagesOf(mem.data) = s + ToNat(GrowDelta)
                /\ mem.data.len[1] = 0 /\ mem.data.len[4] = 0
                /\ mem.data.nz = last.data.nz

\* a memory.grow with a positive delta that extended a memory holding data
C4_GrowSucceededReached ==
    /\ last.op = "memory.grow"
    /\ ~IsNegative(GrowDelta) /\ ToNat(GrowDelta) > 0
    /\ Top(values) # MinusOneValue
    /\ PagesOf(mem.data) > PagesOf(last.data)
    /\ DOMAIN mem.data.nz # {}

\* C5: across separate invocations on one instance memory.size returns the
\* declared minimum page count plus the sum of the deltas of all memory.grow
\* that succeeded so far; memory.grow(0) succeeds and leaves memory.size unchanged.
C5_SizeIsMinPlusGrown ==
    /\ last.op = "memory.size" =>
          /\ ~IsNegative(Top(values).bits)
          /\ ToNat(Top(values).bits) = mem.ty.limits.min + hist.sum
    /\ (last.op = "memory.grow" /\ GrowDelta = <<0, 0>>) =>
          /\ Top(values) # MinusOneValue
          /\ PagesOf(mem.data) = PagesOf(last.data)

\* memory.size is the first instruction of an invocation that follows two
\* successful memory.grow of earlier invocations
C5_SizeAfterGrowsReached ==
    /\ last.op = "memory.size"
    /\ last.pc = func_inst(current_stackframe(last.frames).func_idx).code_expr.from
    /\ mem.ty.limits.min = 0
    /\ hist.n = 2 /\ hist.sum = 5
    /\ Top(values) = I32(<<5, 0>>)

----------------------------------------------------------------------------
(* Claims about loads and stores, under Spec *)

LoadOps ==
    { "i32.load", "i64.load", "f32.load", "f64.load",
      "i32.load8_s", "i32.load8_u", "i32.load16_s", "i32.load16_u",
      "i64.load8_s", "i64.load8_u", "i64.load16_s", "i64.load16_u",
      "i64.load32_s", "i64.load32_u" }

StoreOps ==
    { "i32.store", "i64.store", "f32.store", "f64.store",
      "i32.store8", "i32.store16", "i64.store8", "i64.store16", "i64.store32" }

\* the access width of a variant, in bytes
WidthOf(op) ==
    IF op \in {"i32.load8_s", "i32.load8_u", "i64.load8_s", "i64.load8_u",
               "i32.store8", "i64.store8"} THEN 1
    ELSE IF op \in {"i32.load16_s", "i32.load16_u", "i64.load16_s", "i64.load16_u",
                    "i32.store16", "i64.store16"} THEN 2
    ELSE IF op \in {"i64.load", "f64.load", "i64.store", "f64.store"} THEN 8
    ELSE 4

\* the address popped by the load or store executed last
PoppedAddress ==
    IF last.op \in LoadOps THEN Top(last.values).bits ELSE Nth(last.values, 1).bits

\* ea = memarg.offset + popped address, as an integer of more than 32 bits
EffectiveAddress == AddLimbs(ZeroExtend(last.imm.offset, 4), ZeroExtend(PoppedAddress, 4))

\* ea + w > |mem.data|
OutOfBounds(w) == Lt(last.data.len, AddLimbs(EffectiveAddress, <<w, 0, 0, 0>>))

\* the bytes of memory at [ea, ea + w)
BytesAt(data, ea, w) == [i \in 1..w |-> ByteAt(data, AddLimbs(ea, <<i - 1, 0, 0, 0>>))]

\* the little-endian bytes of a bit pattern
LittleEndian(bits) ==
    [i \in 1..(2 * Len(bits)) |->
        IF i % 2 = 1 THEN bits[(i + 1) \div 2] % 256 ELSE bits[(i + 1) \div 2] \div 256]

\* no byte of memory outside [ea, ea + w) differs from what it was
UnchangedOutside(ea, w) ==
    /\ mem.data.len = last.data.len
    /\ \A a \in (DOMAIN mem.data.nz) \cup (DOMAIN last.data.nz) :
          a \notin {AddLimbs(ea, <<i - 1, 0, 0, 0>>) : i \in 1..w}
              => ByteAt(mem.data, a) = ByteAt(last.data, a)

\* C6: every load and store variant with access width w in {1,2,4,8}, with
\* ea = memarg.offset + popped address, traps with MemoryAccessOutOfBounds
\* exactly when ea + w > |mem.data| (including when offset + address does not
\* fit in 32 bits); a trapping store changes no byte of memory.
C6_TrapsExactlyOutOfBounds ==
    last.op \in LoadOps \cup StoreOps =>
        /\ outcome = "MemoryAccessOutOfBounds" <=> OutOfBounds(WidthOf(last.op))
        /\ (outcome = "MemoryAccessOutOfBounds" /\ last.op \in StoreOps)
              => mem.data = last.data

\* the part of C6 that the code keeps: every variant but i64.store and f64.store
C6_OtherVariantsTrapExactlyOutOfBounds ==
    last.op \in (LoadOps \cup StoreOps) \ {"i64.store", "f64.store"} =>
        /\ outcome = "MemoryAccessOutOfBounds" <=> OutOfBounds(WidthOf(last.op))
        /\ (outcome = "MemoryAccessOutOfBounds" /\ last.op \in StoreOps)
              => mem.data = last.data

\* C7: i64.store pops a 64-bit value and writes the 8 bytes of its little-endian
\* encoding at [ea, ea+8); for every 64-bit value v and in-bounds address,
\* i64.store followed by i64.load at the same address returns v, without an abort.
C7_I64StoreWritesEightBytes ==
    /\ (last.op = "i64.store" /\ ~OutOfBounds(8)) =>
          /\ outcome = "running"
          /\ BytesAt(mem.data, EffectiveAddress, 8) = LittleEndian(Top(last.values).bits)
          /\ UnchangedOutside(EffectiveAddress, 8)
    /\ (/\ last.op = "i64.load"
        /\ hist.store # None
        /\ hist.store[1].op = "i64.store"
        /\ ZeroExtend(hist.store[1].address, 4) = EffectiveAddress) =>
          /\ outcome = "running"
          /\ Top(values) = hist.store[1].value

\* C8: f64.store writes exactly 8 bytes, the little-endian encoding of the
\* operand's bit pattern, into [ea, ea+8) and traps with MemoryAccessOutOfBounds
\* when ea + 8 > |mem.data|; it never writes only 4 bytes and never aborts on an
\* in-bounds address.
C8_F64StoreWritesEightBytes ==
    last.op = "f64.store" =>
        IF OutOfBounds(8)
        THEN outcome = "MemoryAccessOutOfBounds" /\ mem.data = last.data
        ELSE /\ outcome = "running"
             /\ BytesAt(mem.data, EffectiveAddress, 8) = LittleEndian(Top(last.values).bits)
             /\ UnchangedOutside(EffectiveAddress, 8)

\* the narrow store that a narrow load matches, and the bits N it carries
MatchingStore(op) ==
    IF op \in {"i32.load8_s", "i32.load8_u"} THEN "i32.store8"
    ELSE IF op \in {"i32.load16_s", "i32.load16_u"} THEN "i32.store16"
    ELSE IF op \in {"i64.load8_s", "i64.load8_u"} THEN "i64.store8"
    ELSE IF op \in {"i64.load16_s", "i64.load16_u"} THEN "i64.store16"
    ELSE "i64.store32"

NarrowLoads == LoadOps \ {"i32.load", "i64.load", "f32.load", "f64.load"}

SignedLoads ==
    {"i32.load8_s", "i32.load16_s", "i64.load8_s", "i64.load16_s", "i64.load32_s"}

\* the low 8 * w bits of `bits`, extended to k limbs of 16 bits: with ones when
\* `signed` and the highest of those bits is set, with zeros otherwise
Extended(bits, w, signed, k) ==
    LET low == IF w = 1 THEN <<bits[1] % 256>>
               ELSE IF w = 2 THEN <<bits[1]>>
               ELSE <<bits[1], bits[2]>>
        negative == IF w = 1 THEN low[1] >= 128 ELSE low[Len(low)] >= 32768
        ones == signed /\ negative
    IN [i \in 1..k |->
          IF i <= Len(low)
          THEN (IF i = 1 /\ w = 1 /\ ones THEN 65280 + low[1] ELSE low[i])
          ELSE IF ones THEN 65535 ELSE 0]

\* C9: a narrow store followed by the matching narrow load at the same address
\* returns the low N bits of the stored operand, sign-extended to the destination
\* width for the _s load and zero-extended for the _u load (N = 8, 16 for i32;
\* 8, 16, 32 for i64).
C9_NarrowStoreThenLoad ==
    (/\ last.op \in NarrowLoads
     /\ hist.store # None
     /\ hist.store[1].op = MatchingStore(last.op)
     /\ ZeroExtend(hist.store[1].address, 4) = EffectiveAddress) =>
        /\ outcome = "running"
        /\ Top(values).ty = hist.store[1].value.ty
        /\ Top(values).bits =
              Extended(hist.store[1].value.bits, WidthOf(last.op),
                       last.op \in SignedLoads, Len(hist.store[1].value.bits))

\* i32.store8 of 0x3456CDEF followed by i32.load8_s at the same address, which
\* yields 0xFFFFFFEF
C9_SignExtendedByteReached ==
    /\ last.op = "i32.load8_s"
    /\ hist.store # None
    /\ hist.store[1].op = "i32.store8"
    /\ hist.store[1].value = I32(<<52719, 13398>>)
    /\ ZeroExtend(hist.store[1].address, 4) = EffectiveAddress
    /\ Top(values) = I32(<<65519, 65535>>)

----------------------------------------------------------------------------
(* Claims about memory.copy and memory.fill, under SpecBulk *)

\* the operands popped by the bulk instruction executed last: n on top, then
\* s (the value, for memory.fill), then d
BulkN == Top(last.values).bits
BulkS == Nth(last.values, 1).bits
BulkD == Nth(last.values, 2).bits

\* the address x + i, for an i32 x >= 0
Offset(x, i) == AddLimbs(ZeroExtend(x, 4), <<i, 0, 0, 0>>)

\* [x, x + n) lies in the memory the instruction found
RangeInBounds(x, n) ==
    /\ ~IsNegative(x) /\ ~IsNegative(n)
    /\ Le(AddLimbs(ZeroExtend(x, 4), ZeroExtend(n, 4)), last.data.len)

\* [x, x + n) ends below 2^31
RangeBelowI32Max(x, n) ==
    ~IsNegative(Truncate(AddLimbs(ZeroExtend(x, 4), ZeroExtend(n, 4)), 2))

\* the instruction completed and [d, d + n) holds what [s, s + n) held before,
\* every other byte what it held before
CopyDone ==
    /\ outcome = "running"
    /\ \A i \in 0..(ToNat(BulkN) - 1) :
          ByteAt(mem.data, Offset(BulkD, i)) = ByteAt(last.data, Offset(BulkS, i))
    /\ UnchangedOutside(ZeroExtend(BulkD, 4), ToNat(BulkN))

\* C2: for any memory contents and any d, s, n with both ranges in bounds
\* (overlapping in either direction or not), after memory.copy the bytes
\* [d, d+n) equal the contents that [s, s+n) had before the operation, and every
\* byte outside [d, d+n) is unchanged.
C2_CopyMovesTheRange ==
    (/\ last.op = "memory.copy"
     /\ RangeInBounds(BulkD, BulkN)
     /\ RangeInBounds(BulkS, BulkN)) => CopyDone

\* C2 for a build without overflow checks
C2_CopyMovesTheRangeWrapping ==
    (/\ last.op = "memory.copy"
     /\ ~last.imm
     /\ RangeInBounds(BulkD, BulkN)
     /\ RangeInBounds(BulkS, BulkN)) => CopyDone

\* the part of C2 that the code keeps: both ranges end below 2^31
C2_CopyBelowI32MaxMovesTheRange ==
    (/\ last.op = "memory.copy"
     /\ RangeInBounds(BulkD, BulkN) /\ RangeBelowI32Max(BulkD, BulkN)
     /\ RangeInBounds(BulkS, BulkN) /\ RangeBelowI32Max(BulkS, BulkN)) => CopyDone

\* an overlapping copy of differing bytes in each direction, below 2^31
C2_OverlapUpwardsReached ==
    /\ last.op = "memory.copy"
    /\ BulkD = <<1, 0>> /\ BulkS = <<0, 0>> /\ BulkN = <<3, 0>>
    /\ BytesAt(last.data, <<0, 0, 0, 0>>, 4) = <<17, 34, 51, 68>>
    /\ CopyDone

C2_OverlapDownwardsReached ==
    /\ last.op = "memory.copy"
    /\ BulkD = <<0, 0>> /\ BulkS = <<1, 0>> /\ BulkN = <<3, 0>>
    /\ BytesAt(last.data, <<0, 0, 0, 0>>, 4) = <<17, 34, 51, 68>>
    /\ CopyDone

\* the instruction completed and [d, d + n) holds v & 0xff, every other byte
\* what it held before
FillDone ==
    /\ outcome = "running"
    /\ \A i \in 0..(ToNat(BulkN) - 1) :
          ByteAt(mem.data, Offset(BulkD, i)) = BulkS[1] % 256
    /\ UnchangedOutside(ZeroExtend(BulkD, 4), ToNat(BulkN))

\* C10: after memory.fill(d, v, n) with [d, d+n) in bounds, load8_u(d+i) returns
\* v & 0xff for every 0 <= i < n, and every byte outside [d, d+n) is unchanged.
C10_FillSetsTheRange ==
    (last.op = "memory.fill" /\ RangeInBounds(BulkD, BulkN)) => FillDone

\* the part of C10 that the code keeps: the range ends below 2^31
C10_FillBelowI32MaxSetsTheRange ==
    (/\ last.op = "memory.fill"
     /\ RangeInBounds(BulkD, BulkN)
     /\ RangeBelowI32Max(BulkD, BulkN)) => FillDone

\* C10 for a build without overflow checks
C10_FillSetsTheRangeWrapping ==
    (last.op = "memory.fill" /\ ~last.imm /\ RangeInBounds(BulkD, BulkN)) => FillDone

\* a fill of two bytes, next to bytes that differ from the value
C10_FillReached ==
    /\ last.op = "memory.fill"
    /\ BulkD = <<1, 0>> /\ BulkS = <<52719, 13398>> /\ BulkN = <<2, 0>>
    /\ BytesAt(last.data, <<0, 0, 0, 0>>, 4) = <<17, 34, 51, 68>>
    /\ FillDone

\* the bulk memory instructions and their address and length operands
BulkOps == {"memory.init", "memory.copy", "memory.fill"}

AddressOperands ==
    IF last.op = "memory.fill" THEN {BulkD, BulkN} ELSE {BulkD, BulkS, BulkN}

\* the length of what the instruction reads from: the data segment it found
\* for memory.init, the memory for memory.copy
SourceLen ==
    IF last.op = "memory.init"
    THEN NatToLimbs(Len(last.store_data[last.imm.data_idx + 1].init), 4)
    ELSE last.data.len

\* x + n, both read as u32
RangeEnd(x, n) == AddLimbs(ZeroExtend(x, 4), ZeroExtend(n, 4))

\* an operand is negative as an i32, or a range extends past the end
MustTrap ==
    \/ \E x \in AddressOperands : IsNegative(x)
    \/ Lt(last.data.len, RangeEnd(BulkD, BulkN))
    \/ last.op # "memory.fill" /\ Lt(SourceLen, RangeEnd(BulkS, BulkN))

\* n = 0 with d, and s where there is one, exactly at the end
AtEnd ==
    /\ BulkN = <<0, 0>>
    /\ ZeroExtend(BulkD, 4) = last.data.len
    /\ last.op # "memory.fill" => ZeroExtend(BulkS, 4) = SourceLen

TrappedUnwritten == outcome = "MemoryAccessOutOfBounds" /\ mem.data = last.data

SucceededUnwritten == outcome = "running" /\ mem.data = last.data

\* C11, as stated: memory.init, memory.copy and memory.fill trap with
\* MemoryAccessOutOfBounds and write no byte whenever an address or length
\* operand is negative as an i32 or a range extends past the end of the memory
\* (of the data segment, for the source of memory.init); with n = 0 and d, s
\* exactly at the end they succeed and change nothing
C11_TrapOrSucceedAtEnd ==
    last.op \in BulkOps =>
        /\ MustTrap => TrappedUnwritten
        /\ AtEnd => SucceededUnwritten

\* C11, amended: the same, the success at the end holding where d and s are
\* non-negative as i32, that is, where the end lies below 2^31
C11_TrapOrSucceedAtEndBelowI32Max ==
    last.op \in BulkOps =>
        /\ MustTrap => TrappedUnwritten
        /\ (AtEnd /\ \A x \in AddressOperands : ~IsNegative(x)) => SucceededUnwritten

\* memory.init with n = 0, d at the end of a one-page memory and s at the end
\* of the three-byte segment has succeeded
C11_InitAtEndReached ==
    /\ last.op = "memory.init"
    /\ BulkN = <<0, 0>> /\ BulkD = <<0, 1>> /\ BulkS = <<3, 0>>
    /\ last.data.len = <<0, 1, 0, 0>>
    /\ Len(last.store_data[last.imm.data_idx + 1].init) = 3
    /\ SucceededUnwritten

\* C12: data.drop idx leaves segment idx with no init bytes and the mode it
\* had (Passive, or Active with the same offset span), leaves every other
\* segment and the memory as they were, and changes nothing when the segment
\* was dropped before
C12_DropEmptiesInitKeepsMode ==
    last.op = "data.drop" =>
        LET idx == last.imm + 1
        IN /\ Len(store_data) = Len(last.store_data)
           /\ store_data[idx].init = <<>>
           /\ store_data[idx].mode = last.store_data[idx].mode
           /\ \A k \in 1..Len(store_data) : k # idx => store_data[k] = last.store_data[k]
           /\ mem.data = last.data
           /\ last.store_data[idx].init = <<>> =>
                 store_data = last.store_data /\ values = last.values

\* an active segment that was declared with bytes has been dropped a second time
C12_DroppedTwiceReached ==
    /\ last.op = "data.drop"
    /\ hist.module[last.imm + 1].init # <<>>
    /\ last.store_data[last.imm + 1].init = <<>>
    /\ store_data[last.imm + 1].mode.kind = "Active"
    /\ outcome = "running"

\* the active data declarations of the module instantiated
ActiveData == {k \in 1..Len(hist.module) : IsActive(hist.module[k])}

\* the addresses the k-th declaration covers
CoveredBy(k) ==
    {Plus(ZeroExtend(hist.module[k].offset, 4), i - 1) : i \in 1..Len(hist.module[k].init)}

NonOverlapping ==
    \A j, k \in ActiveData : j # k => CoveredBy(j) \cap CoveredBy(k) = {}

\* memory[o+i] = b[i] for every active segment, and 0 everywhere else
SegmentsPlaced ==
    /\ \A k \in ActiveData : \A i \in 1..Len(hist.module[k].init) :
          ByteAt(mem.data, Plus(ZeroExtend(hist.module[k].offset, 4), i - 1))
              = hist.module[k].init[i]
    /\ \A a \in DOMAIN mem.data.nz : \E k \in ActiveData : a \in CoveredBy(k)

\* C13: after instantiation, and after any invocation of functions that do not
\* write memory, every active data segment (the segments not overlapping) is in
\* memory at its resolved offset and every byte no active segment covers is 0
C13_ActiveSegmentsInMemory == NonOverlapping => SegmentsPlaced

\* an invocation has completed on the module with the two segments at 2 and 12
C13_InvokedWithTwoSegmentsReached ==
    /\ outcome = "Ok"
    /\ hist.module = <<DataAtTwo, DataAtTwelve>>
    /\ NonOverlapping
    /\ BytesAt(mem.data, <<12, 0, 0, 0>>, 5) = <<7, 5, 2, 3, 6>>
    /\ SegmentsPlaced

\* the opcodes of constant expressions according to the specification
ClaimedConstOpcodes ==
    {"global.get", "i32.const", "i64.const", "f32.const", "f64.const", "ref.null",
     "ref.func", "i32.add", "i32.sub", "i32.mul", "i64.add", "i64.sub", "i64.mul"}

\* the positions of `end` and of the opcodes outside `accepted` in the expression
EndsAt == {i \in 1..Len(reader.wasm) : reader.wasm[i].op = "end"}
OthersAt(accepted) ==
    {i \in 1..Len(reader.wasm) : reader.wasm[i].op \notin accepted \cup {"end"}}

\* in a module that holds every byte of the expression: an expression of
\* opcodes in `accepted` up to its `end` has been accepted, and one with
\* another opcode before any `end` has been rejected with InvalidInstr of the
\* first such opcode
AcceptsExactly(accepted) ==
    (reader.result # <<>> /\ reader.len = reader.start_pc + ExprBytes(reader.wasm)) =>
        /\ (EndsAt # {} /\ \A i \in OthersAt(accepted) : \E e \in EndsAt : e < i)
              => IsOk(reader.result)
        /\ \A i \in OthersAt(accepted) :
              (\A j \in EndsAt \cup OthersAt(accepted) : i <= j)
                  => reader.result = ErrOf("InvalidInstr", reader.wasm[i].op)

\* C17, as stated: the constant-expression reader accepts exactly global.get,
\* i32.const, i64.const, f32.const, f64.const, ref.null, ref.func,
\* i32.add/sub/mul, i64.add/sub/mul and end; the first other opcode yields
\* InvalidInstr(opcode)
C17_AcceptsExactlyTheListedOpcodes == AcceptsExactly(ClaimedConstOpcodes)

\* the same without f32.const and f64.const, which the reader does not match
C17_AcceptsExactlyTheListedOpcodesButFloats == AcceptsExactly(ConstOpcodes)

\* validate has returned or aborted; the module it was given
Validated == validation.result # <<>>
Wasm == validation.wasm
Result == validation.result

\* the section ids of the specification
SectionId(ty) ==
    CASE ty = "Custom" -> 0 [] ty = "Type" -> 1 [] ty = "Import" -> 2
      [] ty = "Function" -> 3 [] ty = "Table" -> 4 [] ty = "Memory" -> 5
      [] ty = "Global" -> 6 [] ty = "Export" -> 7 [] ty = "Start" -> 8
      [] ty = "Element" -> 9 [] ty = "Code" -> 10 [] ty = "Data" -> 11
      [] ty = "DataCount" -> 12

\* the place of a section type in the order of the handlers
HandlerRank(ty) == CHOOSE k \in 1..Len(HandlerOrder) : HandlerOrder[k] = ty

NonCustomAt == {i \in 1..Len(Wasm.sections) : Wasm.sections[i].ty # "Custom"}

\* the non-custom sections are in ascending id order, none repeated
AscendingIds ==
    \A i, j \in NonCustomAt :
        i < j => SectionId(Wasm.sections[i].ty) < SectionId(Wasm.sections[j].ty)

\* the non-custom sections are in the order of the handlers, none repeated
AscendingRanks ==
    \A i, j \in NonCustomAt :
        i < j => HandlerRank(Wasm.sections[i].ty) < HandlerRank(Wasm.sections[j].ty)

HasSection(ty) == \E i \in 1..Len(Wasm.sections) : Wasm.sections[i].ty = ty

\* a module with the module header and without the sections that make
\* validate abort or fail whatever their place (Element; Function and Code)
OrderOnly ==
    /\ Wasm.bytes = GoodHeader
    /\ ~HasSection("Element") /\ ~HasSection("Function") /\ ~HasSection("Code")

RejectedWith(e) == IsErr(Result) /\ Result[2] = e

\* C14, as stated: validate accepts a module only if its non-custom sections
\* are in ascending section-id order (DataCount, id 12, after Code and Data),
\* and rejects with SectionOutOfOrder a module whose non-custom sections are
\* out of that order or repeat an id
C14_AcceptedOnlyInAscendingIdOrder ==
    Validated =>
        /\ IsOk(Result) => AscendingIds
        /\ (OrderOnly /\ ~AscendingIds) => RejectedWith("SectionOutOfOrder")

\* the same for the order of the handlers, DataCount between Element and Code
C14_AcceptedOnlyInHandlerOrder ==
    Validated =>
        /\ IsOk(Result) => AscendingRanks
        /\ (OrderOnly /\ ~AscendingRanks) => RejectedWith("SectionOutOfOrder")

\* C15: a module with an Element section in its proper position is accepted or
\* rejected with a validation error; validate never aborts
C15_ElementSectionDoesNotAbort ==
    (Validated /\ Wasm.bytes = GoodHeader /\ HasSection("Element") /\ AscendingIds)
        => Result # Panicked

\* the offset expression is not a sequence of constant-expression opcodes
\* closed by end
ViolatesGrammar(expr) ==
    ~ /\ expr # <<>>
      /\ expr[Len(expr)].op = "end"
      /\ \A i \in 1..(Len(expr) - 1) : expr[i].op \in ClaimedConstOpcodes

\* the maximum size in bytes of the memory declared by d
MaxBytesOf(d) ==
    LET pages == IF d.tag = 1 THEN d.max ELSE 65536
    IN <<0, pages % 65536, pages \div 65536, 0>>

\* the segment is active, its offset is `i32.const c` and c + |init| exceeds
\* the maximum size of the memory
ExceedsMemory(seg, d) ==
    /\ seg.mode = 0
    /\ Len(seg.expr) = 2 /\ seg.expr[1].op = "i32.const" /\ seg.expr[2].op = "end"
    /\ Lt(MaxBytesOf(d), Plus(ZeroExtend(seg.expr[1].imm, 4), Len(seg.init)))

\* C16, as stated: when an active data segment's payload length plus its
\* resolved offset exceeds the memory's maximum size in bytes, or its offset
\* expression violates the constant-expression grammar, validate returns a
\* validation error: it does not abort and produces no ValidationInfo
C16_BadActiveSegmentIsAValidationError ==
    (/\ Validated
     /\ Wasm.bytes = GoodHeader
     /\ Len(Wasm.sections) = 2
     /\ Wasm.sections[1].ty = "Memory" /\ Len(Wasm.sections[1].contents) = 1
     /\ Wasm.sections[2].ty = "Data"
     /\ \E k \in 1..Len(Wasm.sections[2].contents) :
           LET seg == Wasm.sections[2].contents[k]
           IN seg.mode = 0 /\ (ViolatesGrammar(seg.expr)
                                 \/ ExceedsMemory(seg, Wasm.sections[1].contents[1])))
        => IsErr(Result)

\* the module is the module header and one section of type ty
OnlySection(ty) ==
    /\ Wasm.bytes = GoodHeader
    /\ Len(Wasm.sections) = 1
    /\ Wasm.sections[1].ty = ty

Ordered(d) == d.tag = 1 => d.min <= d.max

\* C18: a memory declaration validates when min <= 65536, max is absent or
\* <= 65536, and min <= max, the boundary 65536 included; with min <= max it is
\* rejected with MemSizeTooBig as soon as min or max is 65537 or larger
C18_MemoryCeiling ==
    (Validated /\ OnlySection("Memory") /\ Len(Wasm.sections[1].contents) = 1) =>
        LET d == Wasm.sections[1].contents[1]
        IN (d.tag \in {0, 1} /\ Ordered(d)) =>
              /\ (d.min <= 65536 /\ (d.tag = 1 => d.max <= 65536))
                    => IsOk(Result) /\ Len(Result[2].memories) = 1
              /\ (d.min >= 65537 \/ (d.tag = 1 /\ d.max >= 65537))
                    => Result = Err("MemSizeTooBig")

\* a memory of exactly 65536..65536 pages has validated
C18_MemoryAtCeilingReached ==
    /\ OnlySection("Memory")
    /\ Wasm.sections[1].contents = <<LimitsDecl(1, 65536, 65536)>>
    /\ IsOk(Result)
    /\ Result[2].memories = <<[limits |-> [min |-> 65536, max |-> Some(65536)]]>>

\* the limits declared by the memories and tables of the module
LimitsOf(section) ==
    IF section.ty = "Memory"
    THEN {section.contents[i] : i \in 1..Len(section.contents)}
    ELSE IF section.ty = "Table"
    THEN {section.contents[i].lim : i \in 1..Len(section.contents)}
    ELSE {}

AllLimits == UNION {LimitsOf(Wasm.sections[i]) : i \in 1..Len(Wasm.sections)}

\* C19: limits with a maximum and min > max are rejected with
\* SizeMinIsGreaterThanMax, in a memory and in a table, also when the min of a
\* memory exceeds 65536; limits with min <= max are never rejected with it
C19_MinGreaterThanMax ==
    Validated =>
        /\ \A ty \in {"Memory", "Table"} :
              (OnlySection(ty) /\ Len(Wasm.sections[1].contents) = 1
                  /\ \E d \in AllLimits : ~Ordered(d))
                    => Result = Err("SizeMinIsGreaterThanMax")
        /\ (\A d \in AllLimits : Ordered(d)) => Result # Err("SizeMinIsGreaterThanMax")

\* a memory with min 65537 and max 1 has been rejected
C19_MinAboveCeilingAndMaxReached ==
    /\ OnlySection("Memory")
    /\ Wasm.sections[1].contents = <<LimitsDecl(1, 65537, 1)>>
    /\ Result = Err("SizeMinIsGreaterThanMax")

\* no section header has been read
NoSectionRead == validation.next = 1 /\ validation.header = None

\* C20: an input whose first four bytes are not 00 61 73 6D is rejected with
\* InvalidMagic, one with that magic whose next four bytes are not 01 00 00 00
\* with InvalidVersion; the magic is checked first, and no section is read
\* before both checks pass
C20_MagicThenVersion ==
    /\ ~NoSectionRead => Wasm.bytes = GoodHeader
    /\ Validated =>
          /\ (Len(Wasm.bytes) >= 4 /\ SubSeq(Wasm.bytes, 1, 4) # <<0, 97, 115, 109>>)
                => Result = Err("InvalidMagic") /\ NoSectionRead
          /\ (Len(Wasm.bytes) >= 8 /\ SubSeq(Wasm.bytes, 1, 4) = <<0, 97, 115, 109>>
                /\ SubSeq(Wasm.bytes, 5, 8) # <<1, 0, 0, 0>>)
                => Result = Err("InvalidVersion") /\ NoSectionRead

\* the header of a component, followed by a section, has been rejected
C20_ComponentHeaderReached ==
    /\ Wasm.bytes = <<0, 97, 115, 109, 13, 0, 1, 0>>
    /\ Wasm.sections # <<>>
    /\ Result = Err("InvalidVersion")
    /\ NoSectionRead

\* the module without its custom sections
RECURSIVE NonCustom(_)
NonCustom(sections) ==
    IF sections = <<>> THEN <<>>
    ELSE IF Head(sections).ty = "Custom" THEN NonCustom(Tail(sections))
    ELSE <<Head(sections)>> \o NonCustom(Tail(sections))

WithoutCustom(wasm) == Module(wasm.bytes, NonCustom(wasm.sections))

\* what validate returns for the module without its custom sections
Reference == validate(Validating(WithoutCustom(Wasm))).result

\* the bytes of the custom sections before the first section of type ty
RECURSIVE CustomBytes(_, _)
CustomBytes(sections, ty) ==
    IF sections = <<>> \/ Head(sections).ty = ty THEN 0
    ELSE (IF Head(sections).ty = "Custom" THEN SectionSize(Head(sections)) ELSE 0)
            + CustomBytes(Tail(sections), ty)

\* a ValidationInfo with the spans of its function bodies moved by `code`
\* bytes and those of its data offsets by `data` bytes
Moved(info, code, data) ==
    [info EXCEPT
        !.func_blocks = [i \in 1..Len(@) |-> Span(@[i].from + code, @[i].len)],
        !.data = [i \in 1..Len(@) |->
                    IF IsActive(@[i].mode)
                    THEN [@[i] EXCEPT !.mode.offset = Span(@.from + data, @.len)]
                    ELSE @[i]]]

HasCustom == \E i \in 1..Len(Wasm.sections) : Wasm.sections[i].ty = "Custom"

\* C21, as stated: custom sections put before, between or after the other
\* sections of a module change neither whether validate accepts it, nor the
\* error it reports, nor the summaries decoded from the other sections: validate
\* returns what it returns for the module without them.
C21_CustomSectionsChangeNothing ==
    Validated => Result = Reference

\* C21, amended: custom sections change neither whether validate accepts the
\* module nor the error it reports, and of the summaries decoded from the other
\* sections they change only the positions of the spans (function bodies, data
\* offset expressions), which move by the bytes of the custom sections before
\* the Code and the Data section.
C21_CustomSectionsMoveSpansOnly ==
    Validated =>
        IF IsOk(Reference)
        THEN /\ IsOk(Result)
             /\ Result[2] = Moved(Reference[2], CustomBytes(Wasm.sections, "Code"),
                                  CustomBytes(Wasm.sections, "Data"))
        ELSE Result = Reference

\* an accepted module with custom sections before, between and after its
\* Function and Code sections, two of them in a row
C21_CustomsAroundCodeReached ==
    /\ Validated
    /\ IsOk(Result)
    /\ Len(Wasm.sections) = 8
    /\ Wasm.sections[3].ty = "Function"
    /\ Wasm.sections[6].ty = "Code"
    /\ Result[2].func_blocks = <<Span(45 + 4 * SectionSize(NameSection), 20)>>
\* the entries of the first section of type ty, none when there is no such section
RECURSIVE Entries(_, _)
Entries(sections, ty) ==
    IF sections = <<>> THEN <<>>
    ELSE IF Head(sections).ty = ty THEN Head(sections).contents
    ELSE Entries(Tail(sections), ty)

\* C22: whenever validate returns a ValidationInfo, the number of function code
\* spans it records (func_blocks) is the number of entries of the Function
\* section; a module whose Function and Code sections disagree in count never
\* yields a ValidationInfo.
C22_OneCodeSpanPerFunction ==
    Validated =>
        /\ IsOk(Result) =>
              Len(Result[2].func_blocks) = Len(Entries(Wasm.sections, "Function"))
        /\ Len(Entries(Wasm.sections, "Function")) # Len(Entries(Wasm.sections, "Code"))
              => ~IsOk(Result)

\* a module with two functions and two bodies is accepted, both spans recorded
C22_TwoFunctionsAcceptedReached ==
    /\ Validated
    /\ IsOk(Result)
    /\ Len(Entries(Wasm.sections, "Function")) = 2
    /\ Result[2].func_blocks = <<Span(45, 20), Span(66, 8)>>
\* the sections with the first Memory section cut to its first memory
RECURSIVE OneMemory(_)
OneMemory(sections) ==
    IF sections = <<>> THEN <<>>
    ELSE IF Head(sections).ty = "Memory"
    THEN <<Section("Memory", SubSeq(Head(sections).contents, 1, 1))>> \o Tail(sections)
    ELSE <<Head(sections)>> \o OneMemory(Tail(sections))

\* the module is rejected for nothing but the number of its memories: its
\* memories are valid and, with the first of them only, it is accepted
OtherwiseAccepted ==
    /\ \A i \in 1..Len(Entries(Wasm.sections, "Memory")) :
          IsOk(MemType_decode(Entries(Wasm.sections, "Memory")[i]))
    /\ IsOk(validate(Validating(Module(Wasm.bytes, OneMemory(Wasm.sections)))).result)

\* C29: a module that declares two or more memories (and is otherwise accepted)
\* is rejected with MoreThanOneMemory; a module that declares no memory or one
\* is never rejected with that error.
C29_MoreThanOneMemory ==
    Validated =>
        /\ Len(Entries(Wasm.sections, "Memory")) >= 2 /\ OtherwiseAccepted
              => RejectedWith("MoreThanOneMemory")
        /\ Len(Entries(Wasm.sections, "Memory")) <= 1
              => ~RejectedWith("MoreThanOneMemory")

\* a module with exactly two memories, both valid, has been rejected
C29_TwoMemoriesRejectedReached ==
    /\ Validated
    /\ Len(Entries(Wasm.sections, "Memory")) = 2
    /\ OtherwiseAccepted
    /\ RejectedWith("MoreThanOneMemory")
\* the reads of a ValType made so far
ValTypeReads == {i \in 1..Len(reader.reads) : reader.reads[i].ty = "ValType"}

\* every read so far was of a ValType, as in read_vec(ValType::read)
VectorOfValTypes == ValTypeReads = 1..Len(reader.reads)

\* the types the reads returned, in order
RECURSIVE Decoded(_)
Decoded(reads) ==
    IF reads = <<>> THEN <<>>
    ELSE IF IsOk(Head(reads).ret) THEN <<Head(reads).ret[2]>> \o Decoded(Tail(reads))
    ELSE Decoded(Tail(reads))

\* C30: decoding a ValType consumes exactly one byte when it succeeds and none
\* when it fails with InvalidValType, whatever bytes follow; decoding the
\* vectors [i32, funcref] (7F 70) and [i32, v128] (7F 7B) yields both types,
\* in order.
C30_ValTypeConsumesOneByte ==
    /\ \A i \in ValTypeReads :
          LET read == reader.reads[i]
          IN /\ IsOk(read.ret) => read.to = read.from + 1
             /\ read.ret = Err("InvalidValType") => read.to = read.from
    /\ VectorOfValTypes /\ Len(reader.reads) = 2 /\ reader.wasm = <<127, 112>>
          => Decoded(reader.reads) = <<"I32", "FuncRef">>
    /\ VectorOfValTypes /\ Len(reader.reads) = 2 /\ reader.wasm = <<127, 123>>
          => Decoded(reader.reads) = <<"I32", "VecType">>
\* the function called last has just completed, by `end` or by `return`
CalleeCompleted == last.op \in {"end", "return"} /\ last.call # None

\* C23: when `call idx` has executed and the callee completes, by `end` or by
\* `return`, execution resumes at the instruction after the call, the call
\* frames are those before the call, and the value stack is the one before
\* the call with the |params| arguments on top replaced by the values the
\* callee returned.
C23_CallReturnsToCaller ==
    CalleeCompleted =>
        LET call == last.call[1]
            callee_ty == func_ty(call.imm)
        IN /\ Running
           /\ pc = call.pc + 1 + ULebLen(NatToLimbs(call.imm, 2))
           /\ frames = call.frames
           /\ values = ButLast(call.values, Len(callee_ty.params))
                          \o LastN(last.values, Len(callee_ty.returns))

\* a function of one parameter and one result, called with another value
\* below its argument, has completed by `return` with a value of its own below
\* the result
C23_ReturnedOverCallerValueReached ==
    /\ CalleeCompleted
    /\ last.op = "return"
    /\ last.call[1].imm = 2
    /\ Len(last.call[1].values) = 2
    /\ Len(last.values) = 3
    /\ Len(values) = 2

\* a times the bits hi down to lo of b, modulo 2^(16 * Len(a)): the sum of the
\* products by the upper half and by the lower half of the bits
RECURSIVE MulBits(_, _, _, _)
MulBits(a, b, hi, lo) ==
    IF hi = lo
    THEN IF BitOf(b, lo) = 1 THEN ShlBits(a, lo) ELSE ZeroLimbs(Len(a))
    ELSE LET mid == (hi + lo + 1) \div 2
         IN TheOne({ Limbs(AddLimbs(upper, lower)) :
                        upper \in {MulBits(a, b, hi, mid)},
                        lower \in {MulBits(a, b, mid - 1, lo)} })

\* a * b modulo 2^(16 * Len(a)) (wrapping_mul)
wrapping_mul(a, b) == MulBits(a, b, 16 * Len(a) - 1, 0)

DivOps == {"i32.div_s", "i32.div_u", "i64.div_s", "i64.div_u"}
RemOps == {"i32.rem_s", "i32.rem_u", "i64.rem_s", "i64.rem_u"}
SignedOps == {"i32.div_s", "i32.rem_s", "i64.div_s", "i64.rem_s"}

\* the operands of the division executed last: x was pushed first, y is on top
DivX == Nth(last.values, 1).bits
DivY == Top(last.values).bits

\* the division executed last went on and pushed a result
Divided == last.op \in DivOps \cup RemOps /\ Running

\* the one pair of operands whose signed quotient does not exist
MinByMinusOne == DivX = IntMin(Len(DivX)) /\ DivY = Not(ZeroLimbs(Len(DivY)))

\* what the handlers of the same width and signedness compute as the quotient
\* and as the remainder of x and y: the one of the instruction executed last
\* is the value it pushed
Quotient ==
    IF last.op \in DivOps THEN Top(values).bits
    ELSE IF last.op \in SignedOps THEN DivS(DivX, DivY)[2]
    ELSE unsigned_div(DivX, DivY)

Remainder ==
    IF last.op \in RemOps THEN Top(values).bits
    ELSE IF last.op \in SignedOps
    THEN unwrap_or_default(signed_checked_rem(DivX, DivY), Len(DivX))
    ELSE RemU(DivX, DivY)[2]

\* C26: for every x and every y # 0, with x pushed first and y on top,
\* (x div_u y) * y + (x rem_u y) = x in wrapping arithmetic, and likewise for
\* div_s and rem_s except for (INT_MIN, -1), where div_s traps with
\* UnrepresentableResult and rem_s yields 0; for i32 and for i64.
C26_QuotientTimesDivisorPlusRemainder ==
    /\ (Divided /\ ~(MinByMinusOne /\ last.op \in SignedOps)) =>
          /\ Top(values).ty = Top(last.values).ty
          /\ \A q \in {Quotient}, r \in {Remainder} :
                AddLimbs(wrapping_mul(q, DivY), r) = DivX
    /\ (last.op \in {"i32.div_s", "i64.div_s"} /\ MinByMinusOne) =>
          outcome = "UnrepresentableResult"
    /\ (last.op \in {"i32.rem_s", "i64.rem_s"} /\ MinByMinusOne) =>
          Running /\ Top(values).bits = ZeroLimbs(Len(DivX))

\* -7 div_s 2 has been executed on i32 and has pushed -3
C26_MinusSevenByTwoReached ==
    /\ Divided
    /\ last.op = "i32.div_s"
    /\ DivX = U32(65535, 65529)
    /\ DivY = U32(0, 2)
    /\ Top(values) = I32(U32(65535, 65533))

\* C27: each of the eight integer division and remainder instructions traps
\* with DivideBy0 exactly when the divisor, the operand on top of the stack,
\* is zero, and then pushes no result; a zero dividend with a non-zero divisor
\* never traps.
C27_DivideByZeroTraps ==
    last.op \in DivOps \cup RemOps =>
        /\ outcome = "DivideBy0" <=> DivY = ZeroLimbs(Len(DivY))
        /\ outcome = "DivideBy0" => values = ButLast(last.values, 2)
        /\ (DivX = ZeroLimbs(Len(DivX)) /\ DivY # ZeroLimbs(Len(DivY))) =>
              /\ Running
              /\ Top(values).bits = ZeroLimbs(Len(DivX))

\* i64.rem_u of a non-zero number by zero has trapped, the stack empty
C27_RemainderByZeroReached ==
    /\ last.op = "i64.rem_u"
    /\ DivX # ZeroLimbs(4)
    /\ DivY = ZeroLimbs(4)
    /\ outcome = "DivideBy0"
    /\ values = <<>>

\* the trapping and the saturating truncations, those to a signed integer and
\* those to 32 bits
TruncOps ==
    { "i32.trunc_f32_s", "i32.trunc_f32_u", "i32.trunc_f64_s", "i32.trunc_f64_u",
      "i64.trunc_f32_s", "i64.trunc_f32_u", "i64.trunc_f64_s", "i64.trunc_f64_u" }
SatOps ==
    { "i32.trunc_sat_f32_s", "i32.trunc_sat_f32_u", "i32.trunc_sat_f64_s",
      "i32.trunc_sat_f64_u", "i64.trunc_sat_f32_s", "i64.trunc_sat_f32_u",
      "i64.trunc_sat_f64_s", "i64.trunc_sat_f64_u" }
ToSigned ==
    { "i32.trunc_f32_s", "i32.trunc_f64_s", "i64.trunc_f32_s", "i64.trunc_f64_s",
      "i32.trunc_sat_f32_s", "i32.trunc_sat_f64_s", "i64.trunc_sat_f32_s",
      "i64.trunc_sat_f64_s" }
To32 ==
    { "i32.trunc_f32_s", "i32.trunc_f32_u", "i32.trunc_f64_s", "i32.trunc_f64_u",
      "i32.trunc_sat_f32_s", "i32.trunc_sat_f32_u", "i32.trunc_sat_f64_s",
      "i32.trunc_sat_f64_u" }

\* the operand of the truncation executed last, and the width of its result
TruncOperand == Top(last.values).bits
TargetBits == IF last.op \in To32 THEN 32 ELSE 64
TargetLimbs == TargetBits \div 16
TargetType == IF last.op \in To32 THEN "I32" ELSE "I64"

\* the finite operand, truncated toward zero, is a number of the result type:
\* above -2^(n-1) - 1 and below 2^(n-1) for a signed type of n bits, above -1
\* and below 2^n for an unsigned one
InRange(v) ==
    IF last.op \in ToSigned
    THEN \/ ~AtLeastPow2(v, TargetBits - 1)
         \/ /\ IsNegative(v)
            /\ Exponent(v) - Bias(v) = TargetBits - 1
            /\ IntegerPart(v) = ShlBits(OneLimbs(4), TargetBits - 1)
    ELSE IF IsNegative(v) THEN Exponent(v) < Bias(v)
    ELSE ~AtLeastPow2(v, TargetBits)

\* C28: a trapping truncation traps with BadConversionToInteger on NaN and
\* with UnrepresentableResult on an infinity and on a number out of the range of
\* the result type, pushing nothing, and converts every other number; a
\* saturating truncation never traps and pushes 0 for NaN, the least number of
\* the result type for -inf and the greatest for +inf.
C28_TruncationsTrapOrSaturate ==
    /\ last.op \in TruncOps =>
          /\ is_nan(TruncOperand) => outcome = "BadConversionToInteger"
          /\ (~is_nan(TruncOperand) /\ (is_infinity(TruncOperand) \/ ~InRange(TruncOperand)))
                => outcome = "UnrepresentableResult"
          /\ ~Running => values = ButLast(last.values, 1)
          /\ (~is_nan(TruncOperand) /\ ~is_infinity(TruncOperand) /\ InRange(TruncOperand))
                => Running /\ Top(values).ty = TargetType
    /\ last.op \in SatOps =>
          /\ Running
          /\ Top(values).ty = TargetType
          /\ is_nan(TruncOperand) => Top(values).bits = ZeroLimbs(TargetLimbs)
          /\ is_negative_infinity(TruncOperand) =>
                Top(values).bits = IF last.op \in ToSigned THEN IntMin(TargetLimbs)
                                   ELSE ZeroLimbs(TargetLimbs)
          /\ (is_infinity(TruncOperand) /\ ~IsNegative(TruncOperand)) =>
                Top(values).bits = IF last.op \in ToSigned THEN Not(IntMin(TargetLimbs))
                                   ELSE Not(ZeroLimbs(TargetLimbs))

\* i32.trunc_f64_s of -2147483649.0 has trapped, nothing pushed
C28_BelowIntMinTrapsReached ==
    /\ last.op = "i32.trunc_f64_s"
    /\ TruncOperand = U64(49632, 0, 32, 0)
    /\ outcome = "UnrepresentableResult"
    /\ values = <<>>

\* run() has returned: Ok from the outermost frame, or a RuntimeError
Terminated == outcome \in {"Ok"} \cup RuntimeErrors

\* C24: in a validated module with an acyclic call graph every invocation
\* ends, by the return of the outermost frame or by a trap, and while it
\* runs the reader stays inside the body of the function of the current frame.
C24_InvocationsTerminate ==
    /\ [](Running => (frames # <<>> /\ pc <= BodyEnd))
    /\ Running ~> Terminated

\* a division by zero has trapped in a function called by the invoked one
C24_TrappedInCalleeReached ==
    /\ outcome = "DivideBy0"
    /\ callframe_count(frames) = 2
    /\ frames[1].func_idx = 1
    /\ frames[2].func_idx = 2

\* the memory, the globals and the data segments of the store
StoreState == <<mem, globals, store_data>>

\* C25: the instruction that traps changes neither the memory nor the globals
\* nor the data segments, so that what the instructions before it wrote is in
\* the store when run() returns the error, and the next invocation starts on
\* the store the trap left.
C25_TrapKeepsWrites ==
    [][ /\ (Running /\ outcome' \in RuntimeErrors) => StoreState' = StoreState
        /\ (outcome \in RuntimeErrors /\ outcome' = "running") => StoreState' = StoreState
      ]_vars

\* after an invocation that wrote the memory, a global and a data segment and
\* then divided by zero, the next one has loaded the byte written and reads the
\* global written, the data segment dropped
C25_WritesReadAfterTrapReached ==
    /\ Running
    /\ hist.before = "DivideBy0"
    /\ last.op = "global.get"
    /\ Top(values) = I32(U32(0, 7))
    /\ ByteAt(mem.data, ZeroLimbs(4)) = 7
    /\ store_data[1].init = <<>>
    /\ hist.store # None
    /\ hist.store[1].value = I32(U32(0, 7))
----------------------------------------------------------------------------
(* The span of a constant expression                                        *)

\* the Span read_constant_expression returned and the bytes it read
ReturnedSpan == reader.result[2]
Consumed == reader.pc - reader.start_pc

\* C31, as stated: the Span of an accepted expression starts at its first byte,
\* its length is the number of bytes consumed up to and including `end`, and
\* it ends within the module
C31_SpanCoversTheExpression ==
    IsOk(reader.result) =>
        /\ ReturnedSpan.from = reader.start_pc
        /\ ReturnedSpan.len = Consumed
        /\ ReturnedSpan.from + ReturnedSpan.len <= reader.len

\* the byte at which the i-th instruction of the expression starts
OpcodeAt(i) == reader.start_pc + ExprBytes(SubSeq(reader.wasm, 1, i - 1))

\* the instructions whose opcode byte the module holds and that end the loop:
\* `end` and the opcodes that are not accepted
Stops ==
    {i \in 1..Len(reader.wasm) :
        OpcodeAt(i) < reader.len /\ reader.wasm[i].op \notin ConstOpcodes}

\* C39, as stated: when the input is exhausted before an `end` opcode has been
\* read, at an opcode boundary or in the middle of an immediate, the result is
\* ExprMissingEnd and never a Span
C39_ExhaustedInputIsMissingEnd ==
    (reader.result # <<>> /\ Stops = {}) => reader.result = Err("ExprMissingEnd")
----------------------------------------------------------------------------
(* The values of the callers                                                *)

\* C32: at every instruction boundary of an invocation, the topmost frame's
\* value_stack_base is at most the number of values on the stack
C32_BaseWithinValues ==
    (Running /\ frames # <<>>) =>
        current_stackframe(frames).value_stack_base <= Len(values)

\* a called function has executed memory.copy on three operands above a value
\* of its caller, which is all that is left on the stack
C32_CopiedAboveCallerValueReached ==
    /\ Running
    /\ last.op = "memory.copy"
    /\ callframe_count(frames) = 2
    /\ current_stackframe(frames).value_stack_base = 1
    /\ Len(values) = 1
----------------------------------------------------------------------------
(* The end of validate                                                      *)

\* the reader has read every section of the module (its position is the
\* module's length)
AllSectionsRead == validation.next = Len(Wasm.sections) + 1

\* validate has run its last handler and the check that follows it
ReachedTheEnd == Validated /\ validation.stage = Len(HandlerOrder) + 1

\* C33: when validate succeeds every byte of the module has been consumed and
\* no section header is pending; a header left pending after the last handler
\* gives SectionOutOfOrder of its section
C33_AcceptedModulesAreConsumed ==
    /\ (Validated /\ IsOk(Result)) => (AllSectionsRead /\ validation.header = None)
    /\ (ReachedTheEnd /\ validation.header # None)
          => Result = ErrOf("SectionOutOfOrder", validation.header[1].ty)

\* a module that ends with two custom sections after its other sections has
\* been accepted
C33_AcceptedWithTrailingCustomsReached ==
    /\ Validated /\ IsOk(Result)
    /\ Len(Wasm.sections) >= 3
    /\ Wasm.sections[1].ty # "Custom"
    /\ \A i \in (Len(Wasm.sections) - 1)..Len(Wasm.sections) : Wasm.sections[i].ty = "Custom"
    /\ AllSectionsRead
----------------------------------------------------------------------------
(* The growth of the memory                                                 *)

\* |data| is a multiple of PAGE_SIZE = 2^16: its low 16 bits are zero
WholePages == mem.data.len[1] = 0

\* a step that changes |data| makes it longer, keeps every byte below the old
\* length and leaves the bytes from there on zero
OnlyAppendsZeros ==
    /\ Le(mem.data.len, mem'.data.len)
    /\ mem'.data.len # mem.data.len =>
          \A a \in (DOMAIN mem.data.nz) \cup (DOMAIN mem'.data.nz) :
              ByteAt(mem'.data, a) = IF Lt(a, mem.data.len) THEN ByteAt(mem.data, a) ELSE 0

\* C34: |data| is always a multiple of 65536 and never decreases, and a
\* successful memory.grow keeps every byte there was and appends zero bytes
C34_GrowAppendsZeroPages == []WholePages /\ [][OnlyAppendsZeros]_vars

\* a second successful memory.grow has extended a memory that holds data
C34_GrownTwiceWithDataReached ==
    /\ last.op = "memory.grow"
    /\ hist.n = 2
    /\ Top(values) # MinusOneValue
    /\ Lt(last.data.len, mem.data.len)
    /\ DOMAIN mem.data.nz # {}
----------------------------------------------------------------------------
(* memory.init                                                              *)

\* the bytes of the segment memory.init found
InitBytes == last.store_data[last.imm.data_idx + 1].init

\* memory.init has executed on operands in bounds: [d, d + n) lies in the
\* memory and [s, s + n) in the segment
InitInBounds ==
    /\ last.op = "memory.init"
    /\ RangeInBounds(BulkD, BulkN)
    /\ ~IsNegative(BulkS)
    /\ Le(RangeEnd(BulkS, BulkN), NatToLimbs(Len(InitBytes), 4))

\* the instruction completed: [d, d + n) holds the bytes [s, s + n) of the
\* segment, every other byte and every segment is as it was, and the three
\* operands are gone
InitDone ==
    /\ outcome = "running"
    /\ \A i \in 0..(ToNat(BulkN) - 1) :
          ByteAt(mem.data, Offset(BulkD, i)) = InitBytes[ToNat(BulkS) + i + 1]
    /\ UnchangedOutside(ZeroExtend(BulkD, 4), ToNat(BulkN))
    /\ store_data = last.store_data
    /\ values = ButLast(last.values, 3)

\* C35, as stated: memory.init idx with d, s, n in bounds leaves
\* mem[d+i] = data[idx].init[s+i] for 0 <= i < n, every other byte of memory and
\* every data segment unchanged, and removes its three operands
C35_InitCopiesTheSegment == InitInBounds => InitDone

\* the part of C35 that the code keeps: the range written ends below 2^31
C35_InitBelowI32MaxCopiesTheSegment ==
    (InitInBounds /\ RangeBelowI32Max(BulkD, BulkN)) => InitDone

\* C35 for a build without overflow checks
C35_InitCopiesTheSegmentWrapping ==
    (InitInBounds /\ ~last.imm.overflow_checks) => InitDone
----------------------------------------------------------------------------
(* memory.init after data.drop                                              *)

\* memory.init has executed on a segment that was declared with bytes and that
\* data.drop had emptied
InitAfterDrop ==
    /\ last.op = "memory.init"
    /\ hist.module[last.imm.data_idx + 1].init # <<>>
    /\ InitBytes = <<>>

\* the instruction trapped, or completed, and left the memory, the segments
\* and the globals as they were
TrappedAsNoOp == TrappedUnwritten /\ store_data = last.store_data /\ globals = last.globals
SucceededAsNoOp == SucceededUnwritten /\ store_data = last.store_data /\ globals = last.globals

\* C36, as stated: after data.drop idx, every later memory.init idx with n > 0
\* traps with MemoryAccessOutOfBounds and writes nothing, and memory.init idx
\* with n = 0 and s = 0 succeeds as a no-op
C36_DroppedSegmentTrapsUnlessEmpty ==
    InitAfterDrop =>
        /\ (~IsNegative(BulkN) /\ BulkN # <<0, 0>>) => TrappedAsNoOp
        /\ (BulkN = <<0, 0>> /\ BulkS = <<0, 0>>) => SucceededAsNoOp

\* C36, amended: the same, memory.init with n = 0 and s = 0 succeeding when d
\* lies within the memory (0 <= d <= |data| as an i32)
C36_DroppedSegmentTrapsUnlessEmptyInMemory ==
    InitAfterDrop =>
        /\ (~IsNegative(BulkN) /\ BulkN # <<0, 0>>) => TrappedAsNoOp
        /\ (BulkN = <<0, 0>> /\ BulkS = <<0, 0>> /\ RangeInBounds(BulkD, BulkN))
              => SucceededAsNoOp

\* in an invocation that follows the one that dropped the segment, memory.init
\* of one byte has trapped
C36_TrappedInLaterInvocationReached ==
    /\ InitAfterDrop
    /\ hist.before = "Ok"
    /\ BulkN = <<1, 0>> /\ BulkS = <<0, 0>> /\ BulkD = <<0, 0>>
    /\ TrappedAsNoOp
----------------------------------------------------------------------------
(* The effect of a store on the rest of the state, under SpecStores *)

\* the store executed last wrote its bytes: it neither trapped nor aborted
StoreCompleted == last.op \in StoreOps /\ outcome = "running"

\* the operand's low w bytes, byte k holding bits 8k..8k+7
LowBytes(bits, w) == SubSeq(LittleEndian(bits), 1, w)

----------------------------------------------------------------------------
(* Globals, under SpecGlobals *)

\* every global holds a value of the type declared for it
GlobalsKeepTheirTypes ==
    /\ Len(globals) = Len(Globals)
    /\ \A i \in 1..Len(globals) :
          /\ globals[i].ty = Globals[i].ty
          /\ globals[i].value.ty = globals[i].ty

\* one step: global.get idx pushes the value stored in idx and stores nothing,
\* global.set idx stores the popped value in idx and nowhere else, and no other
\* step stores anything, so the value stored in idx is the one most recently set
OnlySetStores ==
    /\ last'.op = "global.get" =>
          /\ values' = Append(values, globals[last'.imm + 1].value)
          /\ globals' = globals
    /\ last'.op = "global.set" =>
          globals' = [globals EXCEPT ![last'.imm + 1].value = Top(values)]
    /\ last'.op # "global.set" => globals' = globals

\* C38: after any sequence of global.set and global.get instructions, every
\* global's stored value carries the value type declared for that global,
\* global.get idx pushes the value most recently set to idx (or its initializer
\* value if never set), and global.set idx changes no other global.
C38_GlobalsHoldTheLastValueSet ==
    /\ globals = Globals
    /\ []GlobalsKeepTheirTypes
    /\ [][OnlySetStores]_vars

\* both globals were set, and an invocation later global.get pushed the i64
\* stored in the second
C38_GetAfterSetsInAnEarlierInvocationReached ==
    /\ last.op = "global.get"
    /\ last.imm = 1
    /\ hist.before = "Ok"
    /\ Top(values) = I64(U64(0, 0, 0, 9))
    /\ globals[1].value = I32(U32(0, 7))

----------------------------------------------------------------------------
(* Shifts and rotations, under SpecShift *)

ShiftOps ==
    { "i32.shl", "i32.shr_s", "i32.shr_u", "i32.rotl", "i32.rotr",
      "i64.shl", "i64.shr_s", "i64.shr_u", "i64.rotl", "i64.rotr" }

\* the operands of the shift executed last: the one pushed first and the one
\* on top, and the width of the instruction
PushedFirst == Nth(last.values, 1).bits
OnTop == Top(last.values).bits
Width == BITS(OnTop)

\* a count modulo the width, which divides 2^16
Masked(count) == count[1] % Width

\* bit i of x shifted or rotated by k < Width, as the instruction is defined
ShiftedBit(op, x, k, i) ==
    CASE op \in {"i32.shl", "i64.shl"} -> IF i >= k THEN BitOf(x, i - k) ELSE 0
      [] op \in {"i32.shr_u", "i64.shr_u"} ->
            IF i + k < Width THEN BitOf(x, i + k) ELSE 0
      [] op \in {"i32.shr_s", "i64.shr_s"} ->
            IF i + k < Width THEN BitOf(x, i + k) ELSE BitOf(x, Width - 1)
      [] op \in {"i32.rotl", "i64.rotl"} -> BitOf(x, (i + Width - k) % Width)
      [] op \in {"i32.rotr", "i64.rotr"} -> BitOf(x, (i + k) % Width)

\* the count plus the width, wrapping
PlusWidth(count) == Limbs(AddLimbs(count, NatToLimbs(Width, Len(count))))

\* C40: for every shift and rotate instruction (shl, shr_s, shr_u, rotl, rotr)
\* the shift count is taken modulo the operand width (count & 31 for i32,
\* count & 63 for i64), so shifting by k and by k + width give the same result;
\* the value shifted is the operand pushed first and the count is the operand
\* on top of the stack.
C40_ShiftCountIsMasked ==
    last.op \in ShiftOps =>
        /\ outcome = "running"
        /\ Len(values) = Len(last.values) - 1
        /\ Top(values).ty = Top(last.values).ty
        /\ \A i \in 0..(Width - 1) :
              BitOf(Top(values).bits, i)
                  = ShiftedBit(last.op, PushedFirst, Masked(OnTop), i)
        /\ ShiftResult(last.op, PushedFirst, PlusWidth(OnTop)) = Top(values).bits

\* a pattern with its top bit set was shifted or rotated by a count of the
\* width or more that is not a multiple of it, and the result is not the
\* pattern and not zero
C40_ShiftByMoreThanTheWidthReached ==
    /\ last.op \in ShiftOps
    /\ IsNegative(PushedFirst)
    /\ OnTop[1] >= Width
    /\ Masked(OnTop) # 0
    /\ Top(values).bits # PushedFirst
    /\ Top(values).bits # ZeroLimbs(Len(PushedFirst))

====
